---- MODULE Spec2Model ----
(***************************************************************************)
(* Multi-unit temporal pathfinding (MultiUnitPathFinder on top of          *)
(* PathFinder): the time-expanded A* search, the occupancy table, the four *)
(* conflict-resolution strategies and the collision detector.              *)
(*                                                                         *)
(* Positions are <<x, y>> with 0-based coordinates as in the source;       *)
(* grid[y + 1][x + 1] is the tile of (x, y).  A path is a sequence of      *)
(* positions; path[i + 1] is the cell at time step i.                      *)
(***************************************************************************)
EXTENDS Integers, Sequences, FiniteSets, TLC

VARIABLES
    battleMap,                \* PathFinder::battleMap
    units,                    \* MultiUnitPathFinder::units
    unitPriorities,           \* MultiUnitPathFinder::unitPriorities
    strategy,                 \* MultiUnitPathFinder::strategy
    occupiedPositionsAtTime,  \* MultiUnitPathFinder::occupiedPositionsAtTime
    result,                   \* PathfindingResult returned by the last findPathsForAllUnits
    lastStrategy,             \* the strategy the last findPathsForAllUnits ran under, "NONE" before the first call
    calls,                    \* number of findPathsForAllUnits calls made on this object
    aborted,                  \* TRUE once the process has been killed inside a call
    search                    \* the last findPathAStarWithOccupiedCheck call: arguments and return value

vars == <<battleMap, units, unitPriorities, strategy, occupiedPositionsAtTime,
          result, lastStrategy, calls, aborted, search>>

----------------------------------------------------------------------------
(* Bounds of the model *)

MaxUnits == 2          \* units registered at the same time
MaxReservedPaths == 2  \* paths committed to the occupancy table between two clears
MaxCalls == 2          \* findPathsForAllUnits calls on one object

(* Program constants *)

TILE_GROUND == 0 - 1
TILE_START == 0
TILE_TARGET == 8
TILE_ELEVATED == 3
MaxIterationFactor == 100
maxAttempts == 3

----------------------------------------------------------------------------
(* Small sequence helpers *)

Abs(n) == IF n < 0 THEN 0 - n ELSE n

Last(s) == s[Len(s)]

Max2(a, b) == IF a > b THEN a ELSE b

----------------------------------------------------------------------------
(* BattleMap *)

\* BattleMap::isValidPosition
isValidPosition(map, pos) ==
    /\ pos[1] >= 0 /\ pos[1] < map.width
    /\ pos[2] >= 0 /\ pos[2] < map.height

\* BattleMap::isReachable
isReachable(map, pos) ==
    IF ~isValidPosition(map, pos) THEN FALSE
    ELSE LET tile == map.grid[pos[2] + 1][pos[1] + 1]
         IN  tile = TILE_GROUND \/ tile = TILE_START \/ tile = TILE_TARGET

\* Row-major scan of the grid for one tile code (y outer, x inner)
RECURSIVE ScanTiles(_, _, _, _, _)
ScanTiles(g, w, h, code, k) ==
    IF k >= w * h THEN <<>>
    ELSE LET x == k % w
             y == k \div w
         IN  (IF g[y + 1][x + 1] = code THEN << <<x, y>> >> ELSE <<>>)
             \o ScanTiles(g, w, h, code, k + 1)

\* PathFinder::loadMapFromGrid with BattleMap::findAllStartAndTargetPositions
loadMapFromGrid(g) ==
    LET h == Len(g)
        w == Len(g[1])
        starts == ScanTiles(g, w, h, TILE_START, 0)
        targets == ScanTiles(g, w, h, TILE_TARGET, 0)
    IN  [grid |-> g, width |-> w, height |-> h,
         startPos |-> IF starts = <<>> THEN <<0, 0>> ELSE starts[1],
         targetPos |-> IF targets = <<>> THEN <<0, 0>> ELSE targets[1],
         allStartPositions |-> starts,
         allTargetPositions |-> targets]

\* PathFinder::isMapLoaded
isMapLoaded(map) ==
    /\ map.allStartPositions # <<>>
    /\ map.allTargetPositions # <<>>
    /\ map.grid # <<>>

\* a direction table whose last entry moves diagonally (up and to the right)
diagonalMoveDirections == << <<1, 0>>, <<0, 1>>, <<0 - 1, 0>>, <<1, 0 - 1>> >>

\* PathFinder::setDefaultMoveOrder: right, down, left, up
moveDirections == << <<1, 0>>, <<0, 1>>, <<0 - 1, 0>>, <<0, 0 - 1>> >>

\* PathFinder::calculateHeuristic (Manhattan distance)
calculateHeuristic(from, to) == Abs(from[1] - to[1]) + Abs(from[2] - to[2])

----------------------------------------------------------------------------
(* Occupancy table: a function from the time steps that have an entry to  *)
(* the set of positions reserved at that step.                            *)

EmptyOccupied == [t \in {} |-> {}]

\* MultiUnitPathFinder::clearOccupiedPositions
clearOccupiedPositions == EmptyOccupied

\* lookup "it != end() && it->second.find(pos) != it->second.end()"
IsOccupiedAt(occ, pos, t) == t \in DOMAIN occ /\ pos \in occ[t]

\* an insertion that replaces the set of the time step by the one position
ReplaceOccupied(occ, t, pos) ==
    [u \in (DOMAIN occ) \cup {t} |-> IF u = t THEN {pos} ELSE occ[u]]

\* occupiedPositionsAtTime[timeStep].insert(pos)
InsertOccupied(occ, t, pos) ==
    [u \in (DOMAIN occ) \cup {t} |->
        IF u = t THEN (IF t \in DOMAIN occ THEN occ[t] ELSE {}) \cup {pos}
        ELSE occ[u]]

\* MultiUnitPathFinder::updateOccupiedPositions
RECURSIVE UpdateFrom(_, _, _, _, _)
UpdateFrom(map, occ, path, startTime, i) ==
    IF i > Len(path) THEN occ
    ELSE UpdateFrom(map,
                    IF isValidPosition(map, path[i])
                    THEN InsertOccupied(occ, startTime + (i - 1), path[i])
                    ELSE occ,
                    path, startTime, i + 1)

\* a reservation that leaves out the first cell of the path
updateWithoutFirstCell(map, occ, path, startTime) ==
    UpdateFrom(map, occ, path, startTime, 2)

updateOccupiedPositions(map, occ, path, startTime) ==
    UpdateFrom(map, occ, path, startTime, 1)

\* a wait check with the occupancy test inverted
canWaitWhenOccupied(map, occ, pos, timeStep) ==
    IF ~isValidPosition(map, pos) \/ ~isReachable(map, pos) THEN FALSE
    ELSE IsOccupiedAt(occ, pos, timeStep)

\* MultiUnitPathFinder::canWaitAtPosition
canWaitAtPosition(map, occ, pos, timeStep) ==
    IF ~isValidPosition(map, pos) \/ ~isReachable(map, pos) THEN FALSE
    ELSE ~IsOccupiedAt(occ, pos, timeStep)

\* PathFinder::getNeighbors
RECURSIVE NeighborsFrom(_, _, _)
NeighborsFrom(map, pos, d) ==
    IF d > Len(moveDirections) THEN <<>>
    ELSE LET newPos == <<pos[1] + moveDirections[d][1], pos[2] + moveDirections[d][2]>>
         IN  (IF isReachable(map, newPos) THEN <<newPos>> ELSE <<>>)
             \o NeighborsFrom(map, pos, d + 1)

getNeighbors(map, pos) == NeighborsFrom(map, pos, 1)

\* PathFinder::getNeighborsWithOccupiedCheck
RECURSIVE NeighborsOccFrom(_, _, _, _, _)
NeighborsOccFrom(map, occ, pos, currentTime, d) ==
    IF d > Len(moveDirections) THEN <<>>
    ELSE LET newPos == <<pos[1] + moveDirections[d][1], pos[2] + moveDirections[d][2]>>
             keep == /\ isValidPosition(map, newPos)
                     /\ isReachable(map, newPos)
                     /\ ~IsOccupiedAt(occ, newPos, currentTime + 1)
         IN  (IF keep THEN <<newPos>> ELSE <<>>)
             \o NeighborsOccFrom(map, occ, pos, currentTime, d + 1)

\* a neighbour list that does not look at the occupancy table
getNeighborsIgnoringOccupied(map, occ, pos, currentTime) == getNeighbors(map, pos)

getNeighborsWithOccupiedCheck(map, occ, pos, currentTime) ==
    NeighborsOccFrom(map, occ, pos, currentTime, 1)

----------------------------------------------------------------------------
(* std::priority_queue over a vector: a binary heap kept in a sequence.   *)
(* Indices below are 0-based as in the library; heap[i + 1] is element i. *)

\* PathNodeComparator / NodeComparator: TRUE when a is served after b
PathNodeComparator(a, b) ==
    IF a.fCost = b.fCost THEN a.hCost > b.hCost ELSE a.fCost > b.fCost

RECURSIVE PushHeapAt(_, _, _, _)
PushHeapAt(heap, holeIndex, topIndex, value) ==
    LET parent == (holeIndex - 1) \div 2
    IN  IF holeIndex > topIndex /\ PathNodeComparator(heap[parent + 1], value)
        THEN PushHeapAt([heap EXCEPT ![holeIndex + 1] = heap[parent + 1]],
                        parent, topIndex, value)
        ELSE [heap EXCEPT ![holeIndex + 1] = value]

\* openSet.push(node)
HeapPush(heap, value) == PushHeapAt(Append(heap, value), Len(heap), 0, value)

RECURSIVE AdjustHeapDown(_, _, _, _, _)
AdjustHeapDown(heap, holeIndex, secondChild, len, value) ==
    IF secondChild < (len - 1) \div 2
    THEN LET c0 == 2 * (secondChild + 1)
             c == IF PathNodeComparator(heap[c0 + 1], heap[c0]) THEN c0 - 1 ELSE c0
         IN  AdjustHeapDown([heap EXCEPT ![holeIndex + 1] = heap[c + 1]], c, c, len, value)
    ELSE IF len % 2 = 0 /\ len >= 2 /\ secondChild = (len - 2) \div 2
         THEN LET c0 == 2 * (secondChild + 1)
              IN  PushHeapAt([heap EXCEPT ![holeIndex + 1] = heap[c0]], c0 - 1, 0, value)
         ELSE PushHeapAt(heap, holeIndex, 0, value)

\* openSet.pop(): the heap without its top element
HeapPop(heap) ==
    IF Len(heap) <= 1 THEN <<>>
    ELSE LET n == Len(heap) - 1
         IN  AdjustHeapDown(SubSeq(heap, 1, n), 0, 0, n, heap[n + 1])

----------------------------------------------------------------------------
(* Temporal A*: MultiUnitPathFinder::findPathAStarWithOccupiedCheck        *)
(* A node carries the path reconstructPathFromNode would return for it.   *)

PathNode(pos, t, g, h, parentPath) ==
    [pos |-> pos, time |-> t, gCost |-> g, hCost |-> h, fCost |-> g + h,
     path |-> Append(parentPath, pos)]

\* MultiUnitPathFinder::positionTimeKey
positionTimeKey(pos, t) == <<pos[1], pos[2], t>>

\* a reconstruction that stops at the node whose parent is null and so leaves out the start
reconstructWithoutStart(node) == Tail(node.path)

\* MultiUnitPathFinder::reconstructPathFromNode
reconstructPathFromNode(node) == node.path

\* "existingNode->second->gCost = tentativeGCost; ..." on the node with this key
RECURSIVE ImproveNode(_, _, _, _, _)
ImproveNode(heap, key, g, current, i) ==
    IF i > Len(heap) THEN heap
    ELSE IF positionTimeKey(heap[i].pos, heap[i].time) = key
         THEN IF g < heap[i].gCost
              THEN [heap EXCEPT ![i] = [@ EXCEPT !.gCost = g, !.fCost = g + @.hCost,
                                                 !.path = Append(current.path, @.pos)]]
              ELSE heap
         ELSE ImproveNode(heap, key, g, current, i + 1)

\* the body of the neighbour loop and of the wait branch, for each candidate cell
RECURSIVE Relax(_, _, _, _, _, _, _)
Relax(open, openSetNodes, closedSet, cands, current, target, i) ==
    IF i > Len(cands) THEN [open |-> open, openSetNodes |-> openSetNodes]
    ELSE LET nextTime == current.time + 1
             key == positionTimeKey(cands[i], nextTime)
             g == current.gCost + 1
         IN  IF key \in closedSet
             THEN Relax(open, openSetNodes, closedSet, cands, current, target, i + 1)
             ELSE IF key \notin openSetNodes
                  THEN Relax(HeapPush(open, PathNode(cands[i], nextTime, g,
                                                     calculateHeuristic(cands[i], target),
                                                     current.path)),
                             openSetNodes \cup {key}, closedSet, cands, current, target, i + 1)
                  ELSE Relax(ImproveNode(open, key, g, current, 1),
                             openSetNodes, closedSet, cands, current, target, i + 1)

\* the search state at the end of a pass that expanded a node: r is the open set the
\* neighbour loop and the wait branch leave behind
AfterExpansion(st, closed2, r) ==
    [st EXCEPT !.open = r.open, !.openSetNodes = r.openSetNodes,
               !.closedSet = closed2, !.iterations = @ + 1]

\* a pass through a loop whose condition is only "!openSet.empty()"
AStarStepWithoutCap(map, occ, target, st) ==
    IF st.returned THEN st
    ELSE IF st.open = <<>>
    THEN [st EXCEPT !.returned = TRUE, !.path = <<>>]
    ELSE LET current == st.open[1]
             currentKey == positionTimeKey(current.pos, current.time)
         IN  IF current.pos = target
             THEN [st EXCEPT !.returned = TRUE, !.iterations = @ + 1,
                             !.path = reconstructPathFromNode(current)]
             ELSE AfterExpansion(st, st.closedSet \cup {currentKey},
                      Relax(HeapPop(st.open), st.openSetNodes \ {currentKey},
                            st.closedSet \cup {currentKey},
                            getNeighborsWithOccupiedCheck(map, occ, current.pos, current.time)
                            \o (IF canWaitAtPosition(map, occ, current.pos, current.time + 1)
                                THEN <<current.pos>> ELSE <<>>),
                            current, target, 1))

\* One pass through the body of "while (!openSet.empty() && iterations < maxIterations)".
\* st.returned is set once the function has executed a return statement.
AStarStep(map, occ, target, st) ==
    IF st.returned THEN st
    ELSE IF st.open = <<>> \/ st.iterations >= map.width * map.height * MaxIterationFactor
    THEN [st EXCEPT !.returned = TRUE, !.path = <<>>]
    ELSE LET current == st.open[1]
             currentKey == positionTimeKey(current.pos, current.time)
         IN  IF current.pos = target
             THEN [st EXCEPT !.returned = TRUE, !.iterations = @ + 1,
                             !.path = reconstructPathFromNode(current)]
             ELSE LET closed2 == st.closedSet \cup {currentKey}
                      cands == getNeighborsWithOccupiedCheck(map, occ, current.pos, current.time)
                               \o (IF canWaitAtPosition(map, occ, current.pos, current.time + 1)
                                   THEN <<current.pos>> ELSE <<>>)
                  IN  AfterExpansion(st, closed2,
                                     Relax(HeapPop(st.open), st.openSetNodes \ {currentKey},
                                           closed2, cands, current, target, 1))

\* n passes through the loop (the recursion halves n so that its depth stays small)
RECURSIVE AStarLoop(_, _, _, _, _)
AStarLoop(map, occ, target, st, n) ==
    IF st.returned \/ n = 0 THEN st
    ELSE IF n = 1 THEN AStarStep(map, occ, target, st)
    ELSE LET half == AStarLoop(map, occ, target, st, n \div 2)
         IN  AStarLoop(map, occ, target, half, n - (n \div 2))

\* what the function returns once the loop has ended in state fin
SearchOutcome(fin) == [path |-> fin.path, iterations |-> fin.iterations]

TemporalSearchRun(map, occ, start, target) ==
    IF ~isMapLoaded(map) THEN [path |-> <<>>, iterations |-> 0]
    ELSE IF ~isValidPosition(map, start) \/ ~isValidPosition(map, target)
         THEN [path |-> <<>>, iterations |-> 0]
    ELSE IF ~isReachable(map, start) \/ ~isReachable(map, target)
         THEN [path |-> <<>>, iterations |-> 0]
    ELSE LET startNode == PathNode(start, 0, 0, calculateHeuristic(start, target), <<>>)
             st0 == [open |-> <<startNode>>, openSetNodes |-> {positionTimeKey(start, 0)},
                     closedSet |-> {}, iterations |-> 0, returned |-> FALSE, path |-> <<>>]
         \* at most maxIterations passes, then the loop condition fails once more
         IN  SearchOutcome(AStarLoop(map, occ, target, st0,
                                     map.width * map.height * MaxIterationFactor + 1))

findPathAStarWithOccupiedCheck(map, occ, start, target) ==
    TemporalSearchRun(map, occ, start, target).path

----------------------------------------------------------------------------
(* Plain single-unit searches of PathFinder (no occupancy, no time)        *)

Node(pos, g, h, parentPath) ==
    [pos |-> pos, gCost |-> g, hCost |-> h, fCost |-> g + h,
     path |-> Append(parentPath, pos)]

\* PathFinder::reconstructPath
reconstructPath(node) == node.path

\* the neighbour loop of PathFinder::findPathAStar(start, target)
RECURSIVE PlainRelax(_, _, _, _, _, _, _)
PlainRelax(open, openSetPositions, closedSet, cands, current, target, i) ==
    IF i > Len(cands) THEN [open |-> open, openSetPositions |-> openSetPositions]
    ELSE IF cands[i] \in closedSet \/ cands[i] \in openSetPositions
         THEN PlainRelax(open, openSetPositions, closedSet, cands, current, target, i + 1)
         ELSE PlainRelax(HeapPush(open, Node(cands[i], current.gCost + 1,
                                             calculateHeuristic(cands[i], target),
                                             current.path)),
                         openSetPositions \cup {cands[i]}, closedSet, cands, current,
                         target, i + 1)

\* the while loop of PathFinder::findPathAStar(start, target)
RECURSIVE PlainAStarLoop(_, _, _, _, _)
PlainAStarLoop(map, target, open, openSetPositions, closedSet) ==
    IF open = <<>> THEN <<>>
    ELSE LET current == open[1]
         IN  IF current.pos = target THEN reconstructPath(current)
             ELSE LET closed2 == closedSet \cup {current.pos}
                      r == PlainRelax(HeapPop(open), openSetPositions \ {current.pos},
                                      closed2, getNeighbors(map, current.pos), current,
                                      target, 1)
                  IN  PlainAStarLoop(map, target, r.open, r.openSetPositions, closed2)

\* PathFinder::findPathAStar(start, target)
findPathAStar(map, start, target) ==
    IF ~isMapLoaded(map) THEN <<>>
    ELSE PlainAStarLoop(map, target,
                        <<Node(start, 0, calculateHeuristic(start, target), <<>>)>>,
                        {start}, {})

\* the neighbour loop of PathFinder::findPathBFS
RECURSIVE BFSVisit(_, _, _, _, _)
BFSVisit(openQueue, visited, cands, current, i) ==
    IF i > Len(cands) THEN [openQueue |-> openQueue, visited |-> visited]
    ELSE IF cands[i] \in visited
         THEN BFSVisit(openQueue, visited, cands, current, i + 1)
         ELSE BFSVisit(Append(openQueue, Node(cands[i], current.gCost + 1, 0, current.path)),
                       visited \cup {cands[i]}, cands, current, i + 1)

\* the while loop of PathFinder::findPathBFS
RECURSIVE BFSLoop(_, _, _, _)
BFSLoop(map, target, openQueue, visited) ==
    IF openQueue = <<>> THEN <<>>
    ELSE LET current == Head(openQueue)
         IN  IF current.pos = target THEN reconstructPath(current)
             ELSE LET r == BFSVisit(Tail(openQueue), visited,
                                    getNeighbors(map, current.pos), current, 1)
                  IN  BFSLoop(map, target, r.openQueue, r.visited)

\* PathFinder::findPathBFS(start, target)
findPathBFS(map, start, target) ==
    IF ~isMapLoaded(map) THEN <<>>
    ELSE BFSLoop(map, target, <<Node(start, 0, 0, <<>>)>>, {start})

----------------------------------------------------------------------------
(* Units and results *)

\* Unit::Unit(unitId, start, target)
Unit(unitId, start, target) ==
    [id |-> unitId, startPos |-> start, targetPos |-> target,
     path |-> <<>>, pathFound |-> FALSE]

\* PathfindingResult::PathfindingResult()
PathfindingResult ==
    [units |-> <<>>, allPathsFound |-> FALSE, totalSteps |-> 0,
     stepByStepPositions |-> <<>>]

\* MultiUnitPathFinder::getUnitPriority
getUnitPriority(prio, unitId) == IF unitId \in DOMAIN prio THEN prio[unitId] ELSE 0

\* "for (const auto &unit : unitsWithPaths) if (unit.pathFound) allPaths.push_back(unit.path)"
RECURSIVE FoundPaths(_, _)
FoundPaths(us, i) ==
    IF i > Len(us) THEN <<>>
    ELSE (IF us[i].pathFound THEN <<us[i].path>> ELSE <<>>) \o FoundPaths(us, i + 1)

RECURSIVE MaxLength(_, _)
MaxLength(paths, i) ==
    IF i > Len(paths) THEN 0 ELSE Max2(Len(paths[i]), MaxLength(paths, i + 1))

\* a padding that repeats the first cell of the path instead of the last
ExtendPathWithFirst(path, maxLength) ==
    IF path = <<>> THEN path
    ELSE [t \in 1..Max2(Len(path), maxLength) |->
            IF t <= Len(path) THEN path[t] ELSE path[1]]

\* "while (path.size() < maxLength) path.push_back(finalPos)" for a non-empty path
ExtendPath(path, maxLength) ==
    IF path = <<>> THEN path
    ELSE [t \in 1..Max2(Len(path), maxLength) |->
            IF t <= Len(path) THEN path[t] ELSE Last(path)]

\* one row of the transposition: the positions of all paths long enough at timeStep
RECURSIVE PositionsAtTimeStep(_, _, _)
PositionsAtTimeStep(paths, timeStep, k) ==
    IF k > Len(paths) THEN <<>>
    ELSE (IF timeStep < Len(paths[k]) THEN <<paths[k][timeStep + 1]>> ELSE <<>>)
         \o PositionsAtTimeStep(paths, timeStep, k + 1)

\* MultiUnitPathFinder::generateStepByStepPositions
generateStepByStepPositions(unitsWithPaths) ==
    LET allPaths == FoundPaths(unitsWithPaths, 1)
    IN  IF allPaths = <<>> THEN <<>>
        ELSE LET maxLength == MaxLength(allPaths, 1)
                 extended == [k \in 1..Len(allPaths) |-> ExtendPath(allPaths[k], maxLength)]
             IN  IF extended[1] = <<>> THEN <<>>
                 ELSE [t \in 1..Len(extended[1]) |-> PositionsAtTimeStep(extended, t - 1, 1)]

\* the pairs (i, j), i < j, of one time step, in loop order; reports (timeStep, i)
RECURSIVE CollisionsInRow(_, _, _, _)
CollisionsInRow(positions, timeStep, i, j) ==
    IF i >= Len(positions) THEN <<>>
    ELSE IF j >= Len(positions) THEN CollisionsInRow(positions, timeStep, i + 1, i + 2)
    ELSE (IF positions[i + 1] = positions[j + 1] THEN << <<timeStep, i>> >> ELSE <<>>)
         \o CollisionsInRow(positions, timeStep, i, j + 1)

RECURSIVE CollisionsFrom(_, _)
CollisionsFrom(stepByStepPositions, timeStep) ==
    IF timeStep >= Len(stepByStepPositions) THEN <<>>
    ELSE CollisionsInRow(stepByStepPositions[timeStep + 1], timeStep, 0, 1)
         \o CollisionsFrom(stepByStepPositions, timeStep + 1)

\* a scan that starts at time step 1 and so never looks at the first row
findCollisionsAfterStart(stepByStepPositions) == CollisionsFrom(stepByStepPositions, 1)

\* MultiUnitPathFinder::findCollisions: sequence of <<timeStep, index>>
findCollisions(stepByStepPositions) == CollisionsFrom(stepByStepPositions, 0)

\* MultiUnitPathFinder::hasCollision
hasCollision(stepByStepPositions, timeStep) ==
    IF timeStep < 0 \/ timeStep >= Len(stepByStepPositions) THEN FALSE
    ELSE LET positions == stepByStepPositions[timeStep + 1]
         IN  \E i, j \in 1..Len(positions) : i < j /\ positions[i] = positions[j]

----------------------------------------------------------------------------
(* The four strategies.  Each returns the PathfindingResult fields it sets *)
(* together with the occupancy table it leaves behind.                    *)

\* a commit in which a unit without a path holds its start cell for two time steps
SequentialCommitHoldingStart(map, occ, unit, path) ==
    IF path # <<>>
    THEN [unit |-> [unit EXCEPT !.path = path, !.pathFound = TRUE],
          occ |-> updateOccupiedPositions(map, occ, path, 0)]
    ELSE [unit |-> [unit EXCEPT !.pathFound = FALSE],
          occ |-> updateOccupiedPositions(map, occ, <<unit.startPos, unit.startPos>>, 0)]

\* "if (!path.empty()) { unit.path = path; ... } else { unit.pathFound = false; ... }"
SequentialCommit(map, occ, unit, path) ==
    IF path # <<>>
    THEN [unit |-> [unit EXCEPT !.path = path, !.pathFound = TRUE],
          occ |-> updateOccupiedPositions(map, occ, path, 0)]
    \* the fallback findPathAStar call only prints a diagnostic
    ELSE [unit |-> [unit EXCEPT !.pathFound = FALSE], occ |-> occ]

\* the body of the unit loop of findPathsSequential
SequentialUnit(map, occ, unit) ==
    IF ~isValidPosition(map, unit.startPos) \/ ~isValidPosition(map, unit.targetPos)
    THEN [unit |-> [unit EXCEPT !.pathFound = FALSE], occ |-> occ]
    ELSE IF ~isReachable(map, unit.startPos)
    THEN [unit |-> [unit EXCEPT !.pathFound = FALSE], occ |-> occ]
    ELSE IF ~isReachable(map, unit.targetPos)
    THEN [unit |-> [unit EXCEPT !.pathFound = FALSE], occ |-> occ]
    ELSE IF unit.startPos = unit.targetPos
    THEN [unit |-> [unit EXCEPT !.path = <<unit.startPos>>, !.pathFound = TRUE],
          occ |-> updateOccupiedPositions(map, occ, <<unit.startPos>>, 0)]
    ELSE SequentialCommit(map, occ, unit,
             findPathAStarWithOccupiedCheck(map, occ, unit.startPos, unit.targetPos))

RECURSIVE SequentialLoop(_, _, _, _)

\* the loop goes on with the next unit after the body left r for this one
SequentialAdvance(map, us, unitIndex, r) ==
    SequentialLoop(map, [us EXCEPT ![unitIndex] = r.unit], r.occ, unitIndex + 1)

\* the unit loop of findPathsSequential
SequentialLoop(map, us, occ, unitIndex) ==
    IF unitIndex > Len(us) THEN [units |-> us, occ |-> occ]
    ELSE SequentialAdvance(map, us, unitIndex, SequentialUnit(map, occ, us[unitIndex]))

\* "result.allPathsFound = true; for (...) if (!unit.pathFound) result.allPathsFound = false"
SequentialSummary(r) ==
    [units |-> r.units,
     allPathsFound |-> \A i \in 1..Len(r.units) : r.units[i].pathFound,
     occ |-> r.occ, aborted |-> FALSE]

\* a pass that does not clear the table it finds on entry
findPathsSequentialNoClear(map, us, occ) ==
    SequentialSummary(SequentialLoop(map, us, occ, 1))

\* MultiUnitPathFinder::findPathsSequential; occ is the table found on entry
findPathsSequential(map, us, occ) ==
    SequentialSummary(SequentialLoop(map, us, clearOccupiedPositions, 1))

\* a comparison that orders the lower priority first
LowerPriority(prio, a, b) == getUnitPriority(prio, a.id) < getUnitPriority(prio, b.id)

\* the lambda handed to std::sort: TRUE when unit a is ordered before unit b
HigherPriority(prio, a, b) == getUnitPriority(prio, a.id) > getUnitPriority(prio, b.id)

\* the insertion sort of std::sort (std::__insertion_sort, std::__unguarded_linear_insert):
\* insertion of us[i] into the sorted prefix
RECURSIVE InsertByPriority(_, _, _)
InsertByPriority(prio, sorted, u) ==
    IF sorted = <<>> THEN <<u>>
    ELSE IF HigherPriority(prio, u, Last(sorted))
         THEN Append(InsertByPriority(prio, SubSeq(sorted, 1, Len(sorted) - 1), u),
                     Last(sorted))
         ELSE Append(sorted, u)

RECURSIVE SortByPriority(_, _, _)
SortByPriority(prio, us, i) ==
    IF i = 0 THEN <<>>
    ELSE InsertByPriority(prio, SortByPriority(prio, us, i - 1), us[i])

\* std::iter_swap on the 0-based positions i and j
SwapUnits(s, i, j) == [s EXCEPT ![i + 1] = s[j + 1], ![j + 1] = s[i + 1]]

\* std::__move_median_to_first(result, a, b, c): the median of the units at a, b, c
\* changes places with the unit at result
MoveMedianToFirst(prio, s, res, a, b, c) ==
    IF HigherPriority(prio, s[a + 1], s[b + 1])
    THEN IF HigherPriority(prio, s[b + 1], s[c + 1]) THEN SwapUnits(s, res, b)
         ELSE IF HigherPriority(prio, s[a + 1], s[c + 1]) THEN SwapUnits(s, res, c)
         ELSE SwapUnits(s, res, a)
    ELSE IF HigherPriority(prio, s[a + 1], s[c + 1]) THEN SwapUnits(s, res, a)
    ELSE IF HigherPriority(prio, s[b + 1], s[c + 1]) THEN SwapUnits(s, res, c)
    ELSE SwapUnits(s, res, b)

\* "while (comp(first, pivot)) ++first"
RECURSIVE AdvanceFirst(_, _, _, _)
AdvanceFirst(prio, s, first, pivot) ==
    IF HigherPriority(prio, s[first + 1], s[pivot + 1])
    THEN AdvanceFirst(prio, s, first + 1, pivot)
    ELSE first

\* "while (comp(pivot, last)) --last"
RECURSIVE RetreatLast(_, _, _, _)
RetreatLast(prio, s, last, pivot) ==
    IF HigherPriority(prio, s[pivot + 1], s[last + 1])
    THEN RetreatLast(prio, s, last - 1, pivot)
    ELSE last

RECURSIVE UnguardedPartition(_, _, _, _, _)

\* "if (!(first < last)) return first; iter_swap(first, last); ++first;"
PartitionSwap(prio, s, first, last, pivot) ==
    IF ~(first < last) THEN [s |-> s, cut |-> first]
    ELSE UnguardedPartition(prio, SwapUnits(s, first, last), first + 1, last, pivot)

\* std::__unguarded_partition(first, last, pivot)
UnguardedPartition(prio, s, first, last, pivot) ==
    PartitionSwap(prio, s, AdvanceFirst(prio, s, first, pivot),
                  RetreatLast(prio, s, last - 1, pivot), pivot)

\* the size above which std::sort partitions a range (_S_threshold)
SortThreshold == 16

RECURSIVE IntrosortLoop(_, _, _, _)

\* "__introsort_loop(cut, last, ...); last = cut;" after a partition left p
IntrosortRest(prio, p, first, last) ==
    IntrosortLoop(prio, IntrosortLoop(prio, p.s, p.cut, last), first, p.cut)

\* std::__introsort_loop on the range [first, last).  Its depth limit 2 * lg(n) is
\* at least 8 for a range that is partitioned at all and every partition takes at
\* least one unit off the range, so for n <= 24 units the heap sort fallback is
\* never entered.
IntrosortLoop(prio, s, first, last) ==
    IF last - first <= SortThreshold THEN s
    ELSE IntrosortRest(prio,
             UnguardedPartition(prio,
                 MoveMedianToFirst(prio, s, first, first + 1,
                                   first + (last - first) \div 2, last - 1),
                 first + 1, last, first),
             first, last)

\* std::sort(result.units.begin(), result.units.end(), comp): the introsort loop,
\* then the final insertion sort over the whole range
StdSort(prio, us) ==
    SortByPriority(prio, IntrosortLoop(prio, us, 0, Len(us)), Len(us))

\* MultiUnitPathFinder::findPathsPriorityBased
findPathsPriorityBased(map, us, prio, occ) ==
    findPathsSequential(map, StdSort(prio, us), occ)

\* "tempMap.grid[pos.y][pos.x] = tile": the write is not range-checked.  With pos off
\* the grid it is undefined behaviour; when the process survives it, the write fell
\* outside the rows and the grid is unchanged.
WriteTile(grid, map, pos, tile) ==
    IF isValidPosition(map, pos) THEN [grid EXCEPT ![pos[2] + 1][pos[1] + 1] = tile]
    ELSE grid

\* some unit makes findPathsCooperative write outside the grid
WritesOutsideGrid(map, us) ==
    \E k \in 1..Len(us) :
        ~isValidPosition(map, us[k].startPos) \/ ~isValidPosition(map, us[k].targetPos)

\* what an out-of-range write can do to the process
OutOfRangeWriteOutcomes == {"KILLED", "WRITE_LOST"}

\* a temporary map that takes the unit's target for its start and its start for its target
CooperativeMapSwapped(map, unit) ==
    LET cleared == [y \in 1..map.height |-> [x \in 1..map.width |->
                      IF map.grid[y][x] = TILE_START \/ map.grid[y][x] = TILE_TARGET
                      THEN TILE_GROUND ELSE map.grid[y][x]]]
        withStart == WriteTile(cleared, map, unit.targetPos, TILE_START)
        withTarget == WriteTile(withStart, map, unit.startPos, TILE_TARGET)
    IN  [map EXCEPT !.grid = withTarget, !.startPos = unit.targetPos,
                    !.targetPos = unit.startPos]

\* the temporary map of findPathsCooperative for one unit
CooperativeMap(map, unit) ==
    LET cleared == [y \in 1..map.height |-> [x \in 1..map.width |->
                      IF map.grid[y][x] = TILE_START \/ map.grid[y][x] = TILE_TARGET
                      THEN TILE_GROUND ELSE map.grid[y][x]]]
        withStart == WriteTile(cleared, map, unit.startPos, TILE_START)
        withTarget == WriteTile(withStart, map, unit.targetPos, TILE_TARGET)
    IN  [map EXCEPT !.grid = withTarget, !.startPos = unit.startPos,
                    !.targetPos = unit.targetPos]

\* "if (!path.empty()) { unit.path = path; ... } else { unit.pathFound = false; }"
CooperativeCommit(map, occ, unit, path) ==
    IF path # <<>>
    THEN [unit |-> [unit EXCEPT !.path = path, !.pathFound = TRUE],
          occ |-> updateOccupiedPositions(map, occ, path, 0)]
    ELSE [unit |-> [unit EXCEPT !.pathFound = FALSE], occ |-> occ]

\* "battleMap = tempMap; path = findPathAStar(); battleMap = originalMap;"
CooperativeSearch(tempMap) == findPathAStar(tempMap, tempMap.startPos, tempMap.targetPos)

\* the body of the unit loop of findPathsCooperative
CooperativeUnit(map, occ, unit) ==
    CooperativeCommit(map, occ, unit, CooperativeSearch(CooperativeMap(map, unit)))

RECURSIVE CooperativePass(_, _, _, _)

\* the loop goes on with the next unit after the body left r for this one
CooperativeAdvance(map, us, k, r) ==
    CooperativePass(map, [us EXCEPT ![k] = r.unit], r.occ, k + 1)

\* the unit loop of one attempt of findPathsCooperative
CooperativePass(map, us, occ, k) ==
    IF k > Len(us) THEN [units |-> us, occ |-> occ]
    ELSE CooperativeAdvance(map, us, k, CooperativeUnit(map, occ, us[k]))

\* std::shuffle: shuffles[attempt] is the permutation the random engine produces
Shuffle(us, perm) == [k \in 1..Len(us) |-> us[perm[k]]]

RECURSIVE CooperativeAttempts(_, _, _, _, _)

\* an attempt loop without the early exit: the next attempt is made in any case
CooperativeAttemptNoBreak(map, r, shuffles, attempt) ==
    CooperativeAttempts(map, r.units, r.occ, shuffles, attempt + 1)

\* "if (result.allPathsFound) break;" after the unit loop of an attempt left r
CooperativeAttemptEnd(map, r, shuffles, attempt) ==
    IF \A k \in 1..Len(r.units) : r.units[k].pathFound
    THEN [units |-> r.units, allPathsFound |-> TRUE, occ |-> r.occ, aborted |-> FALSE]
    ELSE CooperativeAttempts(map, r.units, r.occ, shuffles, attempt + 1)

\* the attempt loop of findPathsCooperative
CooperativeAttempts(map, us, occ, shuffles, attempt) ==
    IF attempt >= maxAttempts
    THEN [units |-> us, allPathsFound |-> FALSE, occ |-> occ, aborted |-> FALSE]
    ELSE CooperativeAttemptEnd(
             map,
             CooperativePass(map,
                             IF attempt > 0 THEN Shuffle(us, shuffles[attempt]) ELSE us,
                             IF attempt > 0 THEN clearOccupiedPositions ELSE occ,
                             1),
             shuffles, attempt)

\* MultiUnitPathFinder::findPathsCooperative; outcome is what an out-of-range write
\* of the first attempt does
findPathsCooperative(map, us, occ, shuffles, outcome) ==
    IF WritesOutsideGrid(map, us) /\ outcome = "KILLED"
    THEN [units |-> us, allPathsFound |-> FALSE, occ |-> clearOccupiedPositions,
          aborted |-> TRUE]
    ELSE CooperativeAttempts(map, us, clearOccupiedPositions, shuffles, 0)

\* an insertion that duplicates the cell at the conflicting index itself
InsertWaitAtConflict(path, timeStep) ==
    SubSeq(path, 1, timeStep) \o <<path[timeStep + 1]>> \o SubSeq(path, timeStep + 1, Len(path))

\* "path.insert(path.begin() + timeStep, path[timeStep - 1])"
InsertWait(path, timeStep) ==
    SubSeq(path, 1, timeStep) \o <<path[timeStep]>> \o SubSeq(path, timeStep + 1, Len(path))

\* the conflict loop of findPathsWithWaiting
RECURSIVE ResolveConflicts(_, _, _)
ResolveConflicts(us, conflicts, c) ==
    IF c > Len(conflicts) THEN us
    ELSE LET timeStep == conflicts[c][1]
             unitIndex == conflicts[c][2]
         IN  IF unitIndex < Len(us) /\ timeStep > 0
                /\ timeStep < Len(us[unitIndex + 1].path)
             THEN ResolveConflicts(
                      [us EXCEPT ![unitIndex + 1].path = InsertWait(@, timeStep)],
                      conflicts, c + 1)
             ELSE ResolveConflicts(us, conflicts, c + 1)

\* a post-processing that makes every unit of a complete result wait one step after
\* its first cell, whether or not a conflict was detected
WaitInsertionEverywhere(r) ==
    IF r.allPathsFound
    THEN [r EXCEPT !.units = [k \in 1..Len(r.units) |->
                                 IF Len(r.units[k].path) > 1
                                 THEN [r.units[k] EXCEPT !.path = InsertWait(@, 1)]
                                 ELSE r.units[k]]]
    ELSE r

\* "if (result.allPathsFound) { ... findCollisions ... path.insert ... }" on the
\* result r of the sequential pass
WaitInsertion(r) ==
    IF r.allPathsFound
    THEN [r EXCEPT !.units = ResolveConflicts(r.units,
                       findCollisions(generateStepByStepPositions(r.units)), 1)]
    ELSE r

\* MultiUnitPathFinder::findPathsWithWaiting
findPathsWithWaiting(map, us, occ) == WaitInsertion(findPathsSequential(map, us, occ))

\* "if (hasAnyPath) { result.stepByStepPositions = ...; result.totalSteps = ...; }"
\* on the result r of the strategy
WithStepByStep(r) ==
    LET hasAnyPath == \E i \in 1..Len(r.units) : r.units[i].pathFound
        stepByStep == IF hasAnyPath THEN generateStepByStepPositions(r.units) ELSE <<>>
    IN  [result |-> [units |-> r.units, allPathsFound |-> r.allPathsFound,
                     totalSteps |-> Len(stepByStep),
                     stepByStepPositions |-> stepByStep],
         occ |-> r.occ, aborted |-> r.aborted]

\* a call whose early returns clear the occupancy table first
findPathsForAllUnitsClearing(map, us, prio, strat, occ, shuffles, outcome) ==
    IF us = <<>> \/ ~isMapLoaded(map)
    THEN [result |-> PathfindingResult, occ |-> clearOccupiedPositions, aborted |-> FALSE]
    ELSE WithStepByStep(
             CASE strat = "SEQUENTIAL" -> findPathsSequential(map, us, occ)
               [] strat = "PRIORITY_BASED" -> findPathsPriorityBased(map, us, prio, occ)
               [] strat = "COOPERATIVE" -> findPathsCooperative(map, us, occ, shuffles, outcome)
               [] strat = "WAIT_AND_RETRY" -> findPathsWithWaiting(map, us, occ))

\* MultiUnitPathFinder::findPathsForAllUnits: the result and the table left behind
findPathsForAllUnits(map, us, prio, strat, occ, shuffles, outcome) ==
    IF us = <<>> THEN [result |-> PathfindingResult, occ |-> occ, aborted |-> FALSE]
    ELSE IF ~isMapLoaded(map)
    THEN [result |-> PathfindingResult, occ |-> occ, aborted |-> FALSE]
    ELSE WithStepByStep(
             CASE strat = "SEQUENTIAL" -> findPathsSequential(map, us, occ)
               [] strat = "PRIORITY_BASED" -> findPathsPriorityBased(map, us, prio, occ)
               [] strat = "COOPERATIVE" -> findPathsCooperative(map, us, occ, shuffles, outcome)
               [] strat = "WAIT_AND_RETRY" -> findPathsWithWaiting(map, us, occ))

\* a Priority-Based pass that leaves the sorted list in the registry
UnitsLeftSorted(map, us, prio, strat) ==
    IF us = <<>> \/ ~isMapLoaded(map) THEN us
    ELSE IF strat = "PRIORITY_BASED" THEN StdSort(prio, us)
    ELSE us

\* the registered list after findPathsForAllUnits: the strategies work on
\* "result.units = units"; findPathsPriorityBased sets "units = result.units" for its
\* sequential pass and then "units = originalUnits"
UnitsAfterCall(map, us, prio, strat) ==
    IF us = <<>> \/ ~isMapLoaded(map) THEN us
    ELSE IF strat = "PRIORITY_BASED"
    THEN LET originalUnits == us
             sortedUnits == StdSort(prio, us)
         IN  \* units = sortedUnits during the pass, units = originalUnits after it
             originalUnits
    ELSE us

\* the map after findPathsForAllUnits: findPathsCooperative sets "battleMap = tempMap"
\* for each search and "battleMap = originalMap" right after it
MapAfterCall(map, us, strat) ==
    IF us = <<>> \/ ~isMapLoaded(map) THEN map
    ELSE IF strat = "COOPERATIVE"
    THEN LET originalMap == map IN originalMap
    ELSE map

----------------------------------------------------------------------------
(* Scenarios: the maps that are loaded, and for each map the start/target *)
(* pairs offered to addUnit.                                               *)

\* a ring of ground around one elevated tile
RingGrid == << <<0, 0 - 1, 8>>,
               <<0 - 1, 3, 0 - 1>>,
               <<8, 0 - 1, 0>> >>

\* a start cell and a target cell separated by a wall
WallGrid == << <<0, 3, 8>> >>

\* open ground without any obstacle
OpenGrid == << <<0, 0 - 1, 8>>,
               <<0 - 1, 0 - 1, 0 - 1>> >>

Grids == {RingGrid, WallGrid, OpenGrid}

\* <<start, target>> pairs: crossing routes, a shared start, a shared target, a head-on
\* pair, a start on elevated terrain, a unit already at its target, a walled-off target,
\* and on every map a start one column off the grid
UnitChoices(map) ==
    { << <<map.width, 0>>, <<2, 0>> >> } \cup
    IF map.grid = RingGrid
    THEN { << <<0, 0>>, <<2, 0>> >>, << <<0, 0>>, <<2, 1>> >>, << <<2, 1>>, <<2, 0>> >>,
           << <<2, 0>>, <<0, 0>> >>, << <<1, 1>>, <<2, 0>> >>, << <<2, 1>>, <<2, 1>> >> }
    ELSE IF map.grid = WallGrid
    THEN { << <<0, 0>>, <<2, 0>> >>, << <<0, 0>>, <<0, 0>> >>, << <<2, 0>>, <<2, 0>> >> }
    ELSE IF map.grid = OpenGrid
    THEN { << <<0, 0>>, <<2, 0>> >>, << <<2, 0>>, <<0, 0>> >>, << <<0, 1>>, <<2, 0>> >>,
           << <<1, 0>>, <<1, 1>> >> }
    ELSE {}

Priorities == {0, 1}

Strategies == {"SEQUENTIAL", "PRIORITY_BASED", "COOPERATIVE", "WAIT_AND_RETRY"}

\* the permutations std::shuffle can produce for n units
ShuffleOrders(n) == {p \in [1..n -> 1..n] : \A i, j \in 1..n : p[i] = p[j] => i = j}

NoSearch ==
    [done |-> FALSE, start |-> <<0, 0>>, target |-> <<0, 0>>, path |-> <<>>,
     iterations |-> 0, reserved |-> 0]

----------------------------------------------------------------------------
(* The planner object: registry, strategy and planning calls               *)

\* MultiUnitPathFinder::MultiUnitPathFinder() followed by loadMapFromGrid
Init ==
    /\ \E g \in Grids : battleMap = loadMapFromGrid(g)
    /\ units = <<>>
    /\ unitPriorities = [i \in {} |-> 0]
    /\ strategy = "SEQUENTIAL"
    /\ occupiedPositionsAtTime = EmptyOccupied
    /\ result = PathfindingResult
    /\ lastStrategy = "NONE"
    /\ calls = 0
    /\ aborted = FALSE
    /\ search = NoSearch

\* TRUE once findPathsForAllUnits has returned on this object
planned == lastStrategy # "NONE"

UnitIds(us) == {us[i].id : i \in 1..Len(us)}

\* an addUnit without the lookup: the unit is appended whether or not its id is in use
addUnitWithoutLookup(us, prio, unitId, startPos, targetPos) ==
    [units |-> Append(us, Unit(unitId, startPos, targetPos)),
     unitPriorities |-> [i \in (DOMAIN prio) \cup {unitId} |->
                            IF i = unitId THEN 0 ELSE prio[i]]]

\* MultiUnitPathFinder::addUnit(unitId, startPos, targetPos)
addUnit(us, prio, unitId, startPos, targetPos) ==
    IF unitId \in UnitIds(us)
    THEN [units |-> [i \in 1..Len(us) |->
                        IF us[i].id = unitId
                        THEN [us[i] EXCEPT !.startPos = startPos, !.targetPos = targetPos,
                                           !.path = <<>>, !.pathFound = FALSE]
                        ELSE us[i]],
          unitPriorities |-> prio]
    ELSE [units |-> Append(us, Unit(unitId, startPos, targetPos)),
          unitPriorities |-> [i \in (DOMAIN prio) \cup {unitId} |->
                                 IF i = unitId THEN 0 ELSE prio[i]]]

AddUnit(unitId, startPos, targetPos) ==
    /\ ~planned
    /\ LET r == addUnit(units, unitPriorities, unitId, startPos, targetPos)
       IN  /\ units' = r.units
           /\ unitPriorities' = r.unitPriorities
    /\ UNCHANGED <<battleMap, strategy, occupiedPositionsAtTime, result, lastStrategy, calls,
                   aborted, search>>

\* MultiUnitPathFinder::setUnitPriority
SetUnitPriority(unitId, priority) ==
    /\ ~planned
    /\ unitPriorities' = [i \in (DOMAIN unitPriorities) \cup {unitId} |->
                             IF i = unitId THEN priority ELSE unitPriorities[i]]
    /\ UNCHANGED <<battleMap, units, strategy, occupiedPositionsAtTime, result,
                   lastStrategy, calls, aborted, search>>

\* MultiUnitPathFinder::setConflictResolutionStrategy
SetConflictResolutionStrategy(newStrategy) ==
    /\ strategy' = newStrategy
    /\ UNCHANGED <<battleMap, units, unitPriorities, occupiedPositionsAtTime, result,
                   lastStrategy, calls, aborted, search>>

\* a call of MultiUnitPathFinder::findPathsForAllUnits
FindPathsForAllUnits ==
    /\ calls < MaxCalls
    /\ calls' = calls + 1
    /\ \E shuffles \in IF strategy = "COOPERATIVE"
                       THEN [1..(maxAttempts - 1) -> ShuffleOrders(Len(units))]
                       ELSE {<<>>} :
       \E outcome \in IF strategy = "COOPERATIVE" /\ WritesOutsideGrid(battleMap, units)
                      THEN OutOfRangeWriteOutcomes
                      ELSE {"WRITE_LOST"} :
       \E r \in {findPathsForAllUnits(battleMap, units, unitPriorities, strategy,
                                      occupiedPositionsAtTime, shuffles, outcome)} :
         IF r.aborted
         THEN /\ aborted' = TRUE
              /\ UNCHANGED <<result, lastStrategy>>
              /\ occupiedPositionsAtTime' = r.occ
         ELSE /\ result' = r.result
              /\ lastStrategy' = strategy
              /\ occupiedPositionsAtTime' = r.occ
              /\ UNCHANGED aborted
    /\ units' = UnitsAfterCall(battleMap, units, unitPriorities, strategy)
    /\ battleMap' = MapAfterCall(battleMap, units, strategy)
    /\ UNCHANGED <<unitPriorities, strategy, search>>

Next ==
    /\ ~aborted
    /\ \/ \E unitId \in 1..MaxUnits : \E c \in UnitChoices(battleMap) :
            /\ unitId <= Len(units) + 1
            /\ AddUnit(unitId, c[1], c[2])
       \/ \E unitId \in UnitIds(units) : \E p \in Priorities : SetUnitPriority(unitId, p)
       \/ \E st \in Strategies : SetConflictResolutionStrategy(st)
       \/ FindPathsForAllUnits

Spec == Init /\ [][Next]_vars

----------------------------------------------------------------------------
(* The temporal search on its own: the calls the unit loop of a pass makes *)
(* (search, then reserve the returned path), on the tables they build.     *)

\* a call of findPathAStarWithOccupiedCheck(start, target)
Search(start, target) ==
    /\ \E r \in {TemporalSearchRun(battleMap, occupiedPositionsAtTime, start, target)} :
          search' = [search EXCEPT !.done = TRUE, !.start = start, !.target = target,
                                   !.path = r.path, !.iterations = r.iterations]
    /\ UNCHANGED <<battleMap, units, unitPriorities, strategy, occupiedPositionsAtTime,
                   result, lastStrategy, calls, aborted>>

\* updateOccupiedPositions(path, 0) on the path just returned
Reserve ==
    /\ search.done
    /\ search.path # <<>>
    /\ search.reserved < MaxReservedPaths
    /\ occupiedPositionsAtTime' =
           updateOccupiedPositions(battleMap, occupiedPositionsAtTime, search.path, 0)
    /\ search' = [NoSearch EXCEPT !.reserved = search.reserved + 1]
    /\ UNCHANGED <<battleMap, units, unitPriorities, strategy, result, lastStrategy,
                   calls, aborted>>

\* clearOccupiedPositions()
ClearOccupied ==
    /\ occupiedPositionsAtTime # EmptyOccupied
    /\ occupiedPositionsAtTime' = clearOccupiedPositions
    /\ search' = NoSearch
    /\ UNCHANGED <<battleMap, units, unitPriorities, strategy, result, lastStrategy,
                   calls, aborted>>

NextSearch ==
    \/ \E c \in UnitChoices(battleMap) : Search(c[1], c[2])
    \/ Reserve
    \/ ClearOccupied

SpecSearch == Init /\ [][NextSearch]_vars

----------------------------------------------------------------------------
(* The occupancy table on its own: the paths the strategies commit are     *)
(* reserved in it, and it is cleared                                       *)

MaxStartTime == 1    \* latest start time of a reservation

\* the paths the unit loops pass to updateOccupiedPositions for one <<start, target>>
\* pair: the path of the temporal search, the path of the search of
\* findPathsCooperative, and the one-cell path of a unit that is at its target
CommittedPaths(map, c) ==
    ({ findPathAStarWithOccupiedCheck(map, EmptyOccupied, c[1], c[2]),
       CooperativeSearch(CooperativeMap(map, Unit(1, c[1], c[2]))) }
     \cup (IF c[1] = c[2] /\ isReachable(map, c[1]) THEN { <<c[1]>> } ELSE {}))
    \ { <<>> }

ReservablePaths(map) == UNION { CommittedPaths(map, c) : c \in UnitChoices(map) }

\* updateOccupiedPositions(path, startTime)
ReservePath(path, startTime) ==
    /\ search.reserved < MaxReservedPaths
    /\ occupiedPositionsAtTime' =
           updateOccupiedPositions(battleMap, occupiedPositionsAtTime, path, startTime)
    /\ search' = [NoSearch EXCEPT !.reserved = search.reserved + 1]
    /\ UNCHANGED <<battleMap, units, unitPriorities, strategy, result, lastStrategy,
                   calls, aborted>>

NextOccupancy ==
    \/ \E path \in ReservablePaths(battleMap) : \E startTime \in 0..MaxStartTime :
           ReservePath(path, startTime)
    \/ ClearOccupied

SpecOccupancy == Init /\ [][NextOccupancy]_vars

----------------------------------------------------------------------------
(* The plain search on its own: findPathAStar between two traversable      *)
(* cells of a map                                                          *)

\* two routes of equal length lead from the start to the far end of the middle
\* row; the only way on to the target leaves from the middle of that row
DetourGrid == << <<0, 0 - 1, 0 - 1, 3>>,
                 <<0 - 1, 3, 0 - 1, 3>>,
                 <<0 - 1, 0 - 1, 0 - 1, 3>>,
                 <<3, 0 - 1, 3, 3>>,
                 <<3, 0 - 1, 0 - 1, 8>> >>

PlainGrids == Grids \cup {DetourGrid}

\* the cells a unit can stand on
TraversableCells(map) ==
    {c \in (0..(map.width - 1)) \X (0..(map.height - 1)) : isReachable(map, c)}

\* MultiUnitPathFinder::MultiUnitPathFinder() followed by loadMapFromGrid
InitPlain ==
    /\ \E g \in PlainGrids : battleMap = loadMapFromGrid(g)
    /\ units = <<>>
    /\ unitPriorities = [i \in {} |-> 0]
    /\ strategy = "SEQUENTIAL"
    /\ occupiedPositionsAtTime = EmptyOccupied
    /\ result = PathfindingResult
    /\ lastStrategy = "NONE"
    /\ calls = 0
    /\ aborted = FALSE
    /\ search = NoSearch

\* a call of PathFinder::findPathAStar(start, target); search holds its arguments
\* and the path it returns
PlainSearch(start, target) ==
    /\ \E path \in {findPathAStar(battleMap, start, target)} :
          search' = [NoSearch EXCEPT !.done = TRUE, !.start = start, !.target = target,
                                     !.path = path]
    /\ UNCHANGED <<battleMap, units, unitPriorities, strategy, occupiedPositionsAtTime,
                   result, lastStrategy, calls, aborted>>

NextPlain ==
    \E start \in TraversableCells(battleMap) : \E target \in TraversableCells(battleMap) :
        PlainSearch(start, target)

SpecPlain == InitPlain /\ [][NextPlain]_vars

----------------------------------------------------------------------------
(* A squad: more units than std::sort orders by insertion alone, each     *)
(* holding the start cell of the map, a few of them with a raised priority *)

MaxSquad == 17    \* units registered in a squad
MaxRaised == 2    \* units of a squad whose priority is not the default

\* the units whose priority is not the default 0
Raised(prio) == {i \in DOMAIN prio : prio[i] # 0}

\* addUnit(n + 1, start, start) for the next free id
Enlist ==
    /\ Len(units) < MaxSquad
    /\ AddUnit(Len(units) + 1, <<0, 0>>, <<0, 0>>)

\* setUnitPriority(unitId, priority) on a registered unit
Rank(unitId, priority) ==
    /\ Cardinality(Raised(unitPriorities) \ {unitId}) < MaxRaised
    /\ SetUnitPriority(unitId, priority)

NextSquad ==
    \/ Enlist
    \/ \E unitId \in UnitIds(units) : \E p \in Priorities : Rank(unitId, p)
    \/ \E st \in {"SEQUENTIAL", "PRIORITY_BASED"} : SetConflictResolutionStrategy(st)
    \/ FindPathsForAllUnits

SpecSquad == Init /\ [][NextSquad]_vars

----------------------------------------------------------------------------
(* Setting up: a planner object that starts without a map, on which maps   *)
(* are loaded and units are registered and removed between planning calls  *)

\* BattleMap::BattleMap(): the map of a planner on which nothing was loaded
NoMap ==
    [grid |-> <<>>, width |-> 0, height |-> 0, startPos |-> <<0, 0>>,
     targetPos |-> <<0, 0>>, allStartPositions |-> <<>>, allTargetPositions |-> <<>>]

\* a grid without any target tile: loadMapFromGrid stores it and reports failure
NoTargetGrid == << <<0, 0 - 1, 0 - 1>> >>

SetupGrids == {WallGrid, NoTargetGrid}

\* <<start, target>> pairs offered to addUnit while setting up
SetupChoices == { << <<0, 0>>, <<2, 0>> >>, << <<0, 0>>, <<0, 0>> >> }

\* MultiUnitPathFinder::MultiUnitPathFinder()
InitSetup ==
    /\ battleMap = NoMap
    /\ units = <<>>
    /\ unitPriorities = [i \in {} |-> 0]
    /\ strategy = "SEQUENTIAL"
    /\ occupiedPositionsAtTime = EmptyOccupied
    /\ result = PathfindingResult
    /\ lastStrategy = "NONE"
    /\ calls = 0
    /\ aborted = FALSE
    /\ search = NoSearch

\* PathFinder::loadMapFromGrid(g) on a planner that may hold a map already: the
\* default start and target stay as they are when g has no such tile
reloadMapFromGrid(map, g) ==
    [loadMapFromGrid(g) EXCEPT
        !.startPos = IF @ = <<0, 0>> /\ g[1][1] # TILE_START THEN map.startPos ELSE @,
        !.targetPos = IF @ = <<0, 0>> /\ g[1][1] # TILE_TARGET THEN map.targetPos ELSE @]

LoadMapFromGrid(g) ==
    /\ battleMap' = reloadMapFromGrid(battleMap, g)
    /\ UNCHANGED <<units, unitPriorities, strategy, occupiedPositionsAtTime, result,
                   lastStrategy, calls, aborted, search>>

\* MultiUnitPathFinder::removeUnit(unitId)
RemoveUnit(unitId) ==
    /\ units' = SelectSeq(units, LAMBDA u : u.id # unitId)
    /\ unitPriorities' = [i \in (DOMAIN unitPriorities) \ {unitId} |-> unitPriorities[i]]
    /\ UNCHANGED <<battleMap, strategy, occupiedPositionsAtTime, result, lastStrategy,
                   calls, aborted, search>>

NextSetup ==
    /\ ~aborted
    /\ \/ \E g \in SetupGrids : LoadMapFromGrid(g)
       \/ \E unitId \in 1..MaxUnits : \E c \in SetupChoices : AddUnit(unitId, c[1], c[2])
       \/ \E unitId \in UnitIds(units) : RemoveUnit(unitId)
       \/ \E unitId \in UnitIds(units) : \E p \in Priorities : SetUnitPriority(unitId, p)
       \/ \E st \in Strategies : SetConflictResolutionStrategy(st)
       \/ FindPathsForAllUnits

SpecSetup == InitSetup /\ [][NextSetup]_vars

----------------------------------------------------------------------------
(* The registry: units are added, removed and replaced, by hand, from a    *)
(* unit list that comes with a map, or from the start and target tiles of  *)
(* the map                                                                 *)

MaxRegistered == 3    \* unit ids in use in the registry

\* MultiUnitPathFinder::setUnitPriority: "unitPriorities[unitId] = priority"
setUnitPriority(prio, unitId, priority) ==
    [i \in (DOMAIN prio) \cup {unitId} |-> IF i = unitId THEN priority ELSE prio[i]]

\* BattleMap::getStartPosition(index)
getStartPosition(map, index) ==
    IF index >= 0 /\ index < Len(map.allStartPositions)
    THEN map.allStartPositions[index + 1]
    ELSE <<0 - 1, 0 - 1>>

\* BattleMap::getTargetPosition(index)
getTargetPosition(map, index) ==
    IF index >= 0 /\ index < Len(map.allTargetPositions)
    THEN map.allTargetPositions[index + 1]
    ELSE <<0 - 1, 0 - 1>>

\* a priority that is measured against the longer side of the map only
PriorityFromLongerSide(map, start, target) ==
    Max2(map.width, map.height) - (Abs(start[1] - target[1]) + Abs(start[2] - target[2]))

\* "int distance = std::abs(start.x - target.x) + std::abs(start.y - target.y);
\*  int priority = maxPossibleDistance - distance;" with
\* "maxPossibleDistance = map.width + map.height"
PriorityFromDistance(map, start, target) ==
    (map.width + map.height) - (Abs(start[1] - target[1]) + Abs(start[2] - target[2]))

\* the target paired with start i: 1:1 when the counts are equal, cycling through
\* the targets when there are more starts, the first targets when there are fewer
AutoSetupTarget(map, i) ==
    IF Len(map.allStartPositions) = Len(map.allTargetPositions)
    THEN getTargetPosition(map, i)
    ELSE IF Len(map.allStartPositions) > Len(map.allTargetPositions)
    THEN getTargetPosition(map, i % Len(map.allTargetPositions))
    ELSE getTargetPosition(map, i)

\* "addUnit(i + 1, start, target); ... setUnitPriority(i + 1, priority);" on the
\* registry reg
AutoSetupAdd(map, reg, i, start, target) ==
    [units |-> addUnit(reg.units, reg.unitPriorities, i + 1, start, target).units,
     unitPriorities |->
         setUnitPriority(addUnit(reg.units, reg.unitPriorities, i + 1, start, target).unitPriorities,
                         i + 1, PriorityFromDistance(map, start, target))]

\* the body of the loops of autoSetupUnitsFromMap
AutoSetupUnit(map, reg, i, start, target) ==
    IF ~isValidPosition(map, start) \/ ~isValidPosition(map, target) THEN reg
    ELSE AutoSetupAdd(map, reg, i, start, target)

\* "for (int i = 0; i < startCount; ++i)"
RECURSIVE AutoSetupLoop(_, _, _)
AutoSetupLoop(map, reg, i) ==
    IF i >= Len(map.allStartPositions) THEN reg
    ELSE AutoSetupLoop(map,
                       AutoSetupUnit(map, reg, i, getStartPosition(map, i),
                                     AutoSetupTarget(map, i)),
                       i + 1)

\* an auto-setup that adds its units to the ones that are registered already
autoSetupOnTopOfUnits(map, us, prio, occ) ==
    IF ~isMapLoaded(map) THEN [units |-> us, unitPriorities |-> prio, occ |-> occ]
    ELSE [units |-> AutoSetupLoop(map, [units |-> us, unitPriorities |-> prio], 0).units,
          unitPriorities |->
              AutoSetupLoop(map, [units |-> us, unitPriorities |-> prio], 0).unitPriorities,
          occ |-> clearOccupiedPositions]

\* MultiUnitPathFinder::autoSetupUnitsFromMap: the registry and the occupancy table
\* it leaves (clearUnits comes after the map check and before the loops; a loaded
\* map has a start and a target, so the count check never returns)
autoSetupUnitsFromMap(map, us, prio, occ) ==
    IF ~isMapLoaded(map) THEN [units |-> us, unitPriorities |-> prio, occ |-> occ]
    ELSE [units |-> AutoSetupLoop(map, [units |-> <<>>,
                                        unitPriorities |-> [i \in {} |-> 0]], 0).units,
          unitPriorities |->
              AutoSetupLoop(map, [units |-> <<>>,
                                  unitPriorities |-> [i \in {} |-> 0]], 0).unitPriorities,
          occ |-> clearOccupiedPositions]

\* "for (const auto &unit : mapUnits) addUnit(unit);"
RECURSIVE AddUnitsFrom(_, _, _)
AddUnitsFrom(reg, mapUnits, k) ==
    IF k > Len(mapUnits) THEN reg
    ELSE AddUnitsFrom(addUnit(reg.units, reg.unitPriorities, mapUnits[k].id,
                              mapUnits[k].startPos, mapUnits[k].targetPos),
                      mapUnits, k + 1)

\* MultiUnitPathFinder::loadMapWithUnits: "if (!loadMapFromGrid(grid)) return false;"
\* leaves the registry as it was, with the grid stored
loadMapWithUnits(map, us, prio, occ, g, mapUnits) ==
    IF ~isMapLoaded(loadMapFromGrid(g))
    THEN [battleMap |-> reloadMapFromGrid(map, g), units |-> us, unitPriorities |-> prio,
          occ |-> occ]
    ELSE [battleMap |-> reloadMapFromGrid(map, g),
          units |-> AddUnitsFrom([units |-> <<>>, unitPriorities |-> [i \in {} |-> 0]],
                                 mapUnits, 1).units,
          unitPriorities |->
              AddUnitsFrom([units |-> <<>>, unitPriorities |-> [i \in {} |-> 0]],
                           mapUnits, 1).unitPriorities,
          occ |-> clearOccupiedPositions]

\* three start tiles and two target tiles
CycleGrid == << <<0, 8, 0>>,
                <<8, 0, 0 - 1>> >>

\* two start tiles and two target tiles
EqualGrid == << <<0, 0 - 1, 8>>,
                <<8, 0, 0 - 1>> >>

\* two start tiles and three target tiles
SpareGrid == << <<0, 8>>,
                <<8, 0>>,
                <<8, 0 - 1>> >>

RegistryGrids == {CycleGrid, EqualGrid, SpareGrid, NoTargetGrid}

\* <<start, target>> pairs offered to addUnit
RegistryChoices == { << <<0, 0>>, <<1, 0>> >>, << <<1, 0>>, <<0, 0>> >> }

\* the unit lists passed to loadMapWithUnits: none, two units, one id twice
MapUnitLists ==
    { <<>>,
      << Unit(2, <<0, 0>>, <<1, 0>>), Unit(1, <<1, 0>>, <<0, 0>>) >>,
      << Unit(1, <<0, 0>>, <<1, 0>>), Unit(1, <<1, 0>>, <<0, 0>>) >> }

\* MultiUnitPathFinder::clearUnits()
ClearUnits ==
    /\ units' = <<>>
    /\ unitPriorities' = [i \in {} |-> 0]
    /\ occupiedPositionsAtTime' = clearOccupiedPositions
    /\ UNCHANGED <<battleMap, strategy, result, lastStrategy, calls, aborted, search>>

\* a call of MultiUnitPathFinder::loadMapWithUnits(g, mapUnits)
LoadMapWithUnits(g, mapUnits) ==
    /\ \E r \in {loadMapWithUnits(battleMap, units, unitPriorities,
                                  occupiedPositionsAtTime, g, mapUnits)} :
          /\ battleMap' = r.battleMap
          /\ units' = r.units
          /\ unitPriorities' = r.unitPriorities
          /\ occupiedPositionsAtTime' = r.occ
    /\ UNCHANGED <<strategy, result, lastStrategy, calls, aborted, search>>

\* a call of MultiUnitPathFinder::autoSetupUnitsFromMap()
AutoSetupUnitsFromMap ==
    /\ \E r \in {autoSetupUnitsFromMap(battleMap, units, unitPriorities,
                                       occupiedPositionsAtTime)} :
          /\ units' = r.units
          /\ unitPriorities' = r.unitPriorities
          /\ occupiedPositionsAtTime' = r.occ
    /\ UNCHANGED <<battleMap, strategy, result, lastStrategy, calls, aborted, search>>

NextRegistry ==
    \/ \E unitId \in 1..MaxRegistered : \E c \in RegistryChoices :
           AddUnit(unitId, c[1], c[2])
    \/ \E unitId \in 1..MaxRegistered : RemoveUnit(unitId)
    \/ ClearUnits
    \/ \E unitId \in 1..MaxRegistered : \E p \in Priorities : SetUnitPriority(unitId, p)
    \/ \E g \in RegistryGrids : \E mapUnits \in MapUnitLists : LoadMapWithUnits(g, mapUnits)
    \/ AutoSetupUnitsFromMap

SpecRegistry == InitSetup /\ [][NextRegistry]_vars

----------------------------------------------------------------------------
(* Corridors: maps one cell wide, with units that travel from one end to   *)
(* the other                                                               *)

MaxCorridor == 5    \* cells of the longest corridor

\* a corridor of n cells: the start tile at one end, the target tile at the other
CorridorGrid(n) ==
    << [x \in 1..n |-> IF x = 1 THEN TILE_START
                       ELSE IF x = n THEN TILE_TARGET ELSE TILE_GROUND] >>

Corridors == {CorridorGrid(n) : n \in 2..MaxCorridor}

\* <<start, target>> pairs: from either end of the corridor to the other end
CorridorChoices(map) ==
    { << <<0, 0>>, <<map.width - 1, 0>> >>, << <<map.width - 1, 0>>, <<0, 0>> >> }

\* MultiUnitPathFinder::MultiUnitPathFinder() followed by loadMapFromGrid
InitCorridor ==
    /\ \E g \in Corridors : battleMap = loadMapFromGrid(g)
    /\ units = <<>>
    /\ unitPriorities = [i \in {} |-> 0]
    /\ strategy = "SEQUENTIAL"
    /\ occupiedPositionsAtTime = EmptyOccupied
    /\ result = PathfindingResult
    /\ lastStrategy = "NONE"
    /\ calls = 0
    /\ aborted = FALSE
    /\ search = NoSearch

NextCorridor ==
    /\ ~aborted
    /\ \/ \E unitId \in 1..MaxUnits : \E c \in CorridorChoices(battleMap) :
            /\ unitId <= Len(units) + 1
            /\ AddUnit(unitId, c[1], c[2])
       \/ \E unitId \in UnitIds(units) : \E p \in Priorities : SetUnitPriority(unitId, p)
       \/ \E st \in Strategies : SetConflictResolutionStrategy(st)
       \/ FindPathsForAllUnits

SpecCorridor == InitCorridor /\ [][NextCorridor]_vars

----------------------------------------------------------------------------
(* Properties of the temporal search (checked under SpecSearch)           *)

ManhattanDistance(a, b) == Abs(a[1] - b[1]) + Abs(a[2] - b[2])

Cells(map) == {<<x, y>> : x \in 0..(map.width - 1), y \in 0..(map.height - 1)}

ObstacleFree(map) == \A c \in Cells(map) : isReachable(map, c)

\* The cells a unit leaving start at time 0 can stand on at time t when every
\* step is a wait or a move to an orthogonal neighbour and lands, at its time
\* step, on a traversable cell that is not reserved at that step.
RECURSIVE ReachableAt(_, _, _, _)
ReachableAt(map, occ, start, t) ==
    IF t = 0 THEN {start}
    ELSE LET before == ReachableAt(map, occ, start, t - 1)
         IN  {c \in Cells(map) :
                 /\ isReachable(map, c)
                 /\ ~IsOccupiedAt(occ, c, t)
                 /\ \E p \in before : ManhattanDistance(p, c) <= 1}

\* C1: a non-empty path returned by the temporal search has no index i in
\* [0, len), the start cell at time 0 included, whose cell is reserved in the
\* occupancy table at time i.
C1_NoReservedCellOnPath ==
    (search.done /\ search.path # <<>>) =>
        \A i \in 0..(Len(search.path) - 1) :
            ~IsOccupiedAt(occupiedPositionsAtTime, search.path[i + 1], i)

\* C2: a non-empty path returned by the temporal search is minimum-time: the
\* target cannot be reached at any earlier time step by moves and waits that
\* land on traversable, unreserved cells.
C2_MinimumTime ==
    (search.done /\ search.path # <<>>) =>
        \A t \in 0..(Len(search.path) - 2) :
            search.target \notin
                ReachableAt(battleMap, occupiedPositionsAtTime, search.start, t)

\* C2 witness: reservations made the returned path wait and arrive later than
\* the Manhattan distance allows.
C2_Witness ==
    /\ search.done
    /\ occupiedPositionsAtTime # EmptyOccupied
    /\ Len(search.path) > ManhattanDistance(search.start, search.target) + 1
    /\ \E i \in 1..(Len(search.path) - 1) : search.path[i] = search.path[i + 1]

\* C3 as stated: with an empty occupancy table the temporal search returns a
\* path exactly as long as the BFS path for every start/target pair (empty
\* exactly when the BFS path is empty), and on an obstacle-free grid that
\* length is the Manhattan distance plus one.
C3_SameLengthAsBFS ==
    (search.done /\ occupiedPositionsAtTime = EmptyOccupied) =>
        /\ Len(search.path) = Len(findPathBFS(battleMap, search.start, search.target))
        /\ ObstacleFree(battleMap) =>
               Len(search.path) = ManhattanDistance(search.start, search.target) + 1

\* C3 amended: with an empty occupancy table and start and target both on
\* traversable cells, a returned path is exactly as long as the BFS path (the
\* Manhattan distance plus one on an obstacle-free grid), and the search
\* returns no path only when BFS finds none or the iteration cap is used up;
\* with a start or target that is not traversable it returns no path.
C3_SameLengthAsBFSOnTraversable ==
    (search.done /\ occupiedPositionsAtTime = EmptyOccupied) =>
        LET bfs == findPathBFS(battleMap, search.start, search.target)
            cap == battleMap.width * battleMap.height * MaxIterationFactor
        IN  IF isReachable(battleMap, search.start) /\ isReachable(battleMap, search.target)
            THEN /\ search.path # <<>> =>
                        /\ Len(search.path) = Len(bfs)
                        /\ ObstacleFree(battleMap) =>
                               Len(search.path) =
                                   ManhattanDistance(search.start, search.target) + 1
                 /\ search.path = <<>> => (bfs = <<>> \/ search.iterations >= cap)
            ELSE search.path = <<>>

\* C3 witness: a search over an empty table, between two distinct traversable
\* cells of a grid with an obstacle, that returned a path.
C3_Witness ==
    /\ search.done
    /\ occupiedPositionsAtTime = EmptyOccupied
    /\ ~ObstacleFree(battleMap)
    /\ search.start # search.target
    /\ search.path # <<>>
    /\ Len(search.path) = Len(findPathBFS(battleMap, search.start, search.target))

----------------------------------------------------------------------------
(* Properties of the planning results (checked under Spec)                *)

\* the units of a result that have a path, in result order
FoundUnits(us) == SelectSeq(us, LAMBDA u : u.pathFound)

\* what the table holds when a planning call starts from a cleared table
FreshResult(strat) ==
    findPathsForAllUnits(battleMap, units, unitPriorities, strat, EmptyOccupied,
                         <<>>, "WRITE_LOST").result

\* the last call ran Wait-and-Retry and its conflict loop inserted a wait
WaitInserted ==
    /\ lastStrategy = "WAIT_AND_RETRY"
    /\ result.units # FreshResult("SEQUENTIAL").units

\* C4: in a result of any strategy, wait insertion included, consecutive cells
\* of a found unit's path are identical or one orthogonal step apart.
C4_OrthogonalOrWaitSteps ==
    planned =>
        \A i \in 1..Len(result.units) :
            result.units[i].pathFound =>
                \A k \in 1..(Len(result.units[i].path) - 1) :
                    ManhattanDistance(result.units[i].path[k],
                                      result.units[i].path[k + 1]) <= 1

\* C4 witness: a Wait-and-Retry result with an inserted wait, in which a path
\* holds both a wait step and a move.
C4_Witness ==
    /\ WaitInserted
    /\ \E i \in 1..Len(result.units) :
          LET path == result.units[i].path
          IN  /\ result.units[i].pathFound
              /\ \E k \in 1..(Len(path) - 1) : path[k] = path[k + 1]
              /\ \E k \in 1..(Len(path) - 1) : path[k] # path[k + 1]

\* C5: in a result of any strategy, a found unit has a non-empty path from its
\* start cell to its target cell, also after Wait-and-Retry inserted waits.
C5_PathJoinsStartAndTarget ==
    planned =>
        \A i \in 1..Len(result.units) :
            result.units[i].pathFound =>
                /\ result.units[i].path # <<>>
                /\ result.units[i].path[1] = result.units[i].startPos
                /\ Last(result.units[i].path) = result.units[i].targetPos

\* C5 witness: Wait-and-Retry lengthened the path of a unit that travels
\* between two distinct cells.
C5_Witness ==
    /\ WaitInserted
    /\ \E i \in 1..Len(result.units) :
          /\ result.units[i].pathFound
          /\ result.units[i].startPos # result.units[i].targetPos
          /\ result.units[i].path # FreshResult("SEQUENTIAL").units[i].path

\* C6: findCollisions reports no collision on the step table of a Sequential
\* result.
C6_SequentialCollisionFree ==
    lastStrategy = "SEQUENTIAL" => findCollisions(result.stepByStepPositions) = <<>>

\* two entries of the row of time step t are the same cell
SharedCellAt(stepByStepPositions, t) ==
    \E i, j \in 1..Len(stepByStepPositions[t + 1]) :
        i < j /\ stepByStepPositions[t + 1][i] = stepByStepPositions[t + 1][j]

\* two units share a cell at time step t and not all units on that cell have it as target
SharedCellOffTargetAt(stepByStepPositions, found, t) ==
    LET row == stepByStepPositions[t + 1]
    IN  \E i, j \in 1..Len(row) :
            /\ i < j
            /\ row[i] = row[j]
            /\ \E k \in 1..Len(row) : row[k] = row[i] /\ found[k].targetPos # row[k]

\* the time steps findCollisions reports
ReportedSteps(stepByStepPositions) ==
    {findCollisions(stepByStepPositions)[c][1] :
        c \in 1..Len(findCollisions(stepByStepPositions))}

\* C7 as stated: hasCollision and findCollisions report a time step exactly
\* when two or more units share a cell there and not every unit on that cell
\* is on its own target.
C7_TargetCellsExempt ==
    planned =>
        \A t \in 0..(Len(result.stepByStepPositions) - 1) :
            LET expected == SharedCellOffTargetAt(result.stepByStepPositions,
                                                  FoundUnits(result.units), t)
            IN  /\ hasCollision(result.stepByStepPositions, t) <=> expected
                /\ (t \in ReportedSteps(result.stepByStepPositions)) <=> expected

\* C7 amended: hasCollision is true at a time step exactly when two entries of
\* its row are the same cell, whether or not that cell is their target, and
\* findCollisions reports, for every pair i < j of equal entries of a row, one
\* entry made of the time step and the index i.
C7_EverySharedCellReported ==
    planned =>
        LET sbs == result.stepByStepPositions
            fc == findCollisions(sbs)
            pairs == UNION { {p \in {t} \X (0..(Len(sbs[t + 1]) - 1))
                                       \X (0..(Len(sbs[t + 1]) - 1)) :
                                 /\ p[2] < p[3]
                                 /\ sbs[t + 1][p[2] + 1] = sbs[t + 1][p[3] + 1]} :
                             t \in 0..(Len(sbs) - 1) }
        IN  /\ \A t \in 0..(Len(sbs) - 1) : hasCollision(sbs, t) <=> SharedCellAt(sbs, t)
            /\ Len(fc) = Cardinality(pairs)
            /\ {fc[c] : c \in 1..Len(fc)} = {<<p[1], p[2]>> : p \in pairs}

\* C7 witness: two units stand on the same cell, the target of both, and the
\* step is reported.
C7_Witness ==
    /\ planned
    /\ \E t \in 0..(Len(result.stepByStepPositions) - 1) :
          /\ SharedCellAt(result.stepByStepPositions, t)
          /\ ~SharedCellOffTargetAt(result.stepByStepPositions, FoundUnits(result.units), t)
          /\ hasCollision(result.stepByStepPositions, t)
          /\ t \in ReportedSteps(result.stepByStepPositions)

\* C8: a planning call on a registry with at least one unit returns, for every
\* strategy, a result that holds all the units and whose allPathsFound flag is
\* true exactly when every unit of the result was found; it does not abort.
C8_FlagAndPartialResult ==
    (calls > 0 /\ units # <<>>) =>
        /\ ~aborted
        /\ result.allPathsFound <=>
               \A i \in 1..Len(result.units) : result.units[i].pathFound
        /\ Len(result.units) = Len(units)
        /\ UnitIds(result.units) = UnitIds(units)

\* the length of the longest path of the found units, 0 without any
LongestFound(found) ==
    IF found = <<>> THEN 0
    ELSE CHOOSE n \in {Len(found[k].path) : k \in 1..Len(found)} :
             \A k \in 1..Len(found) : n >= Len(found[k].path)

\* C9: totalSteps is the length of the longest found path (0 without any), the
\* step table has totalSteps rows, every row has one entry per found unit in
\* result order, and the entry of a unit is its path cell at that step or, past
\* the end of its path, its last cell.
C9_StepTable ==
    planned =>
        LET found == FoundUnits(result.units)
            sbs == result.stepByStepPositions
        IN  /\ result.totalSteps = LongestFound(found)
            /\ Len(sbs) = result.totalSteps
            /\ \A t \in 1..Len(sbs) :
                  /\ Len(sbs[t]) = Len(found)
                  /\ \A k \in 1..Len(found) :
                        sbs[t][k] = IF t <= Len(found[k].path)
                                    THEN found[k].path[t]
                                    ELSE found[k].path[Len(found[k].path)]

\* C9 witness: two found units with paths of different lengths, so that the
\* shorter one is padded.
C9_Witness ==
    /\ planned
    /\ \E i, j \in 1..Len(result.units) :
          /\ result.units[i].pathFound
          /\ result.units[j].pathFound
          /\ Len(result.units[i].path) < Len(result.units[j].path)
    /\ Len(result.stepByStepPositions) = result.totalSteps
    /\ result.totalSteps > 1

\* C10: the result of a Sequential or Priority-Based call is the one the same
\* grid, units and priorities give on a cleared table, whatever calls were
\* made before on the object.
C10_HistoryIndependent ==
    lastStrategy \in {"SEQUENTIAL", "PRIORITY_BASED"} => result = FreshResult(lastStrategy)

\* C10 witness: the second call on an object, Sequential or Priority-Based,
\* made over the reservations of the first, with a unit that had to wait for
\* another one.
C10_Witness ==
    /\ calls = 2
    /\ ~aborted
    /\ lastStrategy \in {"SEQUENTIAL", "PRIORITY_BASED"}
    /\ occupiedPositionsAtTime # EmptyOccupied
    /\ \E i \in 1..Len(result.units) :
          /\ result.units[i].pathFound
          /\ \E k \in 1..(Len(result.units[i].path) - 1) :
                result.units[i].path[k] = result.units[i].path[k + 1]

----------------------------------------------------------------------------
(* Properties of the strategies                                            *)

\* the place of a unit in the registry, i.e. its registration order
RegistrationIndex(unitId) == CHOOSE k \in 1..Len(units) : units[k].id = unitId

\* C11: after a Priority-Based call the units of the result are in descending
\* priority order, and units of equal priority are in registration order.
C11_StablePriorityOrder ==
    (planned /\ lastStrategy = "PRIORITY_BASED") =>
        \A i, j \in 1..Len(result.units) :
            i < j =>
                LET pi == getUnitPriority(unitPriorities, result.units[i].id)
                    pj == getUnitPriority(unitPriorities, result.units[j].id)
                IN  /\ pi >= pj
                    /\ pi = pj => RegistrationIndex(result.units[i].id)
                                      < RegistrationIndex(result.units[j].id)

\* the unit with this id as the registry holds it
Registered(unitId) == units[RegistrationIndex(unitId)]

\* what a Priority-Based call returns for the unit when it is the only one registered
PlannedAlone(unitId) ==
    findPathsForAllUnits(battleMap, <<Registered(unitId)>>, unitPriorities,
                         "PRIORITY_BASED", EmptyOccupied, <<>>, "WRITE_LOST").result.units[1]

\* the unit at place i of the result has a priority above that of every other unit
StrictlyHighest(i) ==
    \A j \in 1..Len(result.units) :
        j # i => getUnitPriority(unitPriorities, result.units[i].id)
                    > getUnitPriority(unitPriorities, result.units[j].id)

\* C12: after a Priority-Based call the unit with the strictly highest priority
\* has exactly the path (and found flag) it gets when it is planned alone on the
\* same grid, whatever other units are registered.
C12_TopPriorityPlannedAlone ==
    (planned /\ lastStrategy = "PRIORITY_BASED") =>
        \A i \in 1..Len(result.units) :
            StrictlyHighest(i) =>
                /\ result.units[i].pathFound = PlannedAlone(result.units[i].id).pathFound
                /\ result.units[i].path = PlannedAlone(result.units[i].id).path

\* C12 witness: the top unit was registered after another unit, both were found,
\* and the other unit's path is not the one it gets alone: the order mattered.
C12_Witness ==
    /\ planned
    /\ lastStrategy = "PRIORITY_BASED"
    /\ Len(result.units) = 2
    /\ \E i, j \in 1..2 :
          /\ i # j
          /\ StrictlyHighest(i)
          /\ RegistrationIndex(result.units[i].id) > RegistrationIndex(result.units[j].id)
          /\ result.units[i].pathFound
          /\ result.units[j].pathFound
          /\ result.units[j].path # PlannedAlone(result.units[j].id).path

\* every unit of the sequence has pathFound set
AllFound(us) == \A k \in 1..Len(us) : us[k].pathFound

\* what one pass leaves: result fields and table
PassOutcome(r, allFound) ==
    [units |-> r.units, allPathsFound |-> allFound, occ |-> r.occ]

\* the third pass, on a cleared table and a reshuffled order; its units are returned
\* whether or not every unit was found
ThirdPass(r2, sh2) ==
    LET r3 == CooperativePass(battleMap, Shuffle(r2.units, sh2), clearOccupiedPositions, 1)
    IN  PassOutcome(r3, AllFound(r3.units))

\* the second pass, on a cleared table and a reshuffled order
SecondPass(r1, sh1, sh2) ==
    LET r2 == CooperativePass(battleMap, Shuffle(r1.units, sh1), clearOccupiedPositions, 1)
    IN  IF AllFound(r2.units) THEN PassOutcome(r2, TRUE) ELSE ThirdPass(r2, sh2)

\* the first pass, in registration order on a cleared table
UpToThreePasses(sh1, sh2) ==
    LET r1 == CooperativePass(battleMap, units, clearOccupiedPositions, 1)
    IN  IF AllFound(r1.units) THEN PassOutcome(r1, TRUE) ELSE SecondPass(r1, sh1, sh2)

\* C13: a Cooperative call on at least one unit that returns leaves what at most
\* three passes leave:
\* the first pass in registration order, every later pass on a cleared table and
\* a reshuffled order, no pass after the first one that finds every unit, and
\* after a third pass the units as that pass left them.
C13_AtMostThreePasses ==
    (planned /\ lastStrategy = "COOPERATIVE" /\ units # <<>>) =>
        \E sh1, sh2 \in ShuffleOrders(Len(units)) :
            /\ result.units = UpToThreePasses(sh1, sh2).units
            /\ result.allPathsFound = UpToThreePasses(sh1, sh2).allPathsFound
            /\ ~aborted =>
                   occupiedPositionsAtTime = UpToThreePasses(sh1, sh2).occ

\* C13 witness: two units, one of them never found, so that three passes ran, and
\* the result lists the units in an order the shuffles produced.
C13_Witness ==
    /\ planned
    /\ lastStrategy = "COOPERATIVE"
    /\ Len(result.units) = 2
    /\ ~result.allPathsFound
    /\ \E k \in 1..2 : result.units[k].pathFound
    /\ result.units[1].id # units[1].id

\* C14: a Cooperative call whose first pass finds every unit returns for every
\* unit the path Sequential returns for it on the same units in the same order.
C14_CooperativePassIsSequential ==
    (planned /\ lastStrategy = "COOPERATIVE" /\ result.allPathsFound) =>
        \A k \in 1..Len(result.units) :
            /\ FreshResult("SEQUENTIAL").units[k].id = result.units[k].id
            /\ FreshResult("SEQUENTIAL").units[k].pathFound
            /\ FreshResult("SEQUENTIAL").units[k].path = result.units[k].path

\* the conflicts the conflict loop of Wait-and-Retry works through: those of the
\* Sequential pass, detected once
SequentialConflicts ==
    findCollisions(generateStepByStepPositions(FreshResult("SEQUENTIAL").units))

\* path with one more step at 0-based index t, a copy of the cell at index t
WaitOnConflictCell(path, t) ==
    [k \in 1..(Len(path) + 1) |-> IF k <= t THEN path[k] ELSE path[Max2(k - 1, t + 1)]]

\* path with one more step at 0-based index t, a copy of the cell at index t - 1
WaitBeforeConflictCell(path, t) ==
    [k \in 1..(Len(path) + 1) |-> IF k <= t THEN path[k] ELSE path[k - 1]]

\* every conflict <<t, a>> from the c-th on puts a copy of the cell at index t into
\* the path of unit a at index t
RECURSIVE WaitAtEveryConflict(_, _, _)
WaitAtEveryConflict(us, conflicts, c) ==
    IF c > Len(conflicts) THEN us
    ELSE WaitAtEveryConflict(
             [us EXCEPT ![conflicts[c][2] + 1].path =
                 IF conflicts[c][1] < Len(@) THEN WaitOnConflictCell(@, conflicts[c][1])
                 ELSE Append(@, Last(@))],
             conflicts, c + 1)

\* every conflict <<t, a>> from the c-th on with 0 < t < length of a's path as it
\* is by then puts a copy of the cell at index t - 1 into that path at index t;
\* the other conflicts change nothing
RECURSIVE WaitBeforeEveryConflict(_, _, _)
WaitBeforeEveryConflict(us, conflicts, c) ==
    IF c > Len(conflicts) THEN us
    ELSE WaitBeforeEveryConflict(
             [us EXCEPT ![conflicts[c][2] + 1].path =
                 IF conflicts[c][1] > 0 /\ conflicts[c][1] < Len(@)
                 THEN WaitBeforeConflictCell(@, conflicts[c][1])
                 ELSE @],
             conflicts, c + 1)

\* the last call ran Wait-and-Retry and its Sequential pass found every unit
WaitingAfterFullPass ==
    /\ planned
    /\ lastStrategy = "WAIT_AND_RETRY"
    /\ units # <<>>
    /\ FreshResult("SEQUENTIAL").allPathsFound

\* C15 as stated: after a full Sequential pass, Wait-and-Retry puts for each
\* reported conflict (t, a) one wait into the path of unit a at index t, a copy
\* of the cell at the conflicting index t, in one pass over the conflicts.
C15_WaitDuplicatesConflictCell ==
    WaitingAfterFullPass =>
        result.units = WaitAtEveryConflict(FreshResult("SEQUENTIAL").units,
                                           SequentialConflicts, 1)

\* C15 amended: after a full Sequential pass, Wait-and-Retry works once through
\* the conflicts detected on the Sequential result; a conflict (t, a) with
\* 0 < t < length of a's path puts one wait into that path at index t, a copy of
\* the cell at index t - 1, and any other conflict leaves the paths as they are.
C15_WaitDuplicatesPreviousCell ==
    WaitingAfterFullPass =>
        result.units = WaitBeforeEveryConflict(FreshResult("SEQUENTIAL").units,
                                               SequentialConflicts, 1)

\* C15 witness: a wait was inserted in front of a move, so that the copied cell is
\* not the cell at the conflicting index.
C15_Witness ==
    /\ WaitingAfterFullPass
    /\ \E c \in 1..Len(SequentialConflicts) :
          LET t == SequentialConflicts[c][1]
              path == FreshResult("SEQUENTIAL").units[SequentialConflicts[c][2] + 1].path
          IN  t > 0 /\ t < Len(path) /\ path[t] # path[t + 1]
    /\ result.units # FreshResult("SEQUENTIAL").units

----------------------------------------------------------------------------
(* More properties of the temporal search (checked under SpecSearch)      *)

\* maxIterations of the map that is loaded
IterationCap == battleMap.width * battleMap.height * MaxIterationFactor

\* C16: a call of the temporal search ends after at most width * height * 100
\* passes of its loop, whatever the grid and the occupancy table; it returns an
\* empty path unless it popped a node on the target, and then the path it
\* returns ends on the target and has no more cells than passes were made.
C16_BoundedExpansions ==
    search.done =>
        /\ search.iterations <= IterationCap
        /\ search.path # <<>> => Last(search.path) = search.target
        /\ search.path # <<>> => Len(search.path) <= search.iterations

\* C16 witness: the target is walled off while the unit can wait on its start, and
\* the search used up the cap and returned no path.
C16_Witness ==
    /\ search.done
    /\ isReachable(battleMap, search.start)
    /\ isReachable(battleMap, search.target)
    /\ findPathBFS(battleMap, search.start, search.target) = <<>>
    /\ search.iterations = IterationCap
    /\ search.path = <<>>

----------------------------------------------------------------------------
(* More properties of the planning results (checked under Spec)           *)

\* the unit has a start or target off the grid or on a non-traversable cell, or no
\* route of traversable cells joins its start and its target
Unplannable(u) ==
    \/ ~isValidPosition(battleMap, u.startPos)
    \/ ~isValidPosition(battleMap, u.targetPos)
    \/ ~isReachable(battleMap, u.startPos)
    \/ ~isReachable(battleMap, u.targetPos)
    \/ findPathBFS(battleMap, u.startPos, u.targetPos) = <<>>

\* C17: whatever the strategy, the result of a call on at least one unit has an
\* entry for every registered unit, and a unit whose start or target is off the
\* grid or not traversable, or whose target no route reaches, is returned with
\* pathFound = false and makes allPathsFound false.
C17_UnplannableUnitsNotFound ==
    (planned /\ units # <<>>) =>
        /\ Len(result.units) = Len(units)
        /\ \A k \in 1..Len(result.units) :
              Unplannable(result.units[k]) =>
                  (~result.units[k].pathFound /\ ~result.allPathsFound)

\* the unit asks to stay on a traversable cell of the grid
AlreadyAtTarget(u) ==
    /\ u.startPos = u.targetPos
    /\ isValidPosition(battleMap, u.startPos)
    /\ isReachable(battleMap, u.startPos)

\* the facts of C19 without the exclusion: found, path [start], cell reserved at time 0
StayingUnitsReserved ==
    (planned /\ ~aborted) =>
        \A k \in 1..Len(result.units) :
            AlreadyAtTarget(result.units[k]) =>
                /\ result.units[k].pathFound
                /\ result.units[k].path = <<result.units[k].startPos>>
                /\ IsOccupiedAt(occupiedPositionsAtTime, result.units[k].startPos, 0)

\* C19: a unit whose start is its target, on a traversable cell of the grid, is
\* returned as found with the path [start], the cell is reserved at time 0, and no
\* unit processed after it in the pass is on that cell at time 0.
C19_StayingUnitHoldsItsCell ==
    /\ StayingUnitsReserved
    /\ (planned /\ ~aborted) =>
           \A k \in 1..Len(result.units) :
               AlreadyAtTarget(result.units[k]) =>
                   \A j \in (k + 1)..Len(result.units) :
                       result.units[j].pathFound =>
                           result.units[j].path[1] # result.units[k].startPos

----------------------------------------------------------------------------
(* Properties of a planner that is being set up (checked under SpecSetup)  *)

\* the step is a findPathsForAllUnits call on a planner without units or without
\* a loaded map
CallWithoutUnitsOrMap ==
    /\ calls' = calls + 1
    /\ units = <<>> \/ ~isMapLoaded(battleMap)

\* C18: a findPathsForAllUnits call with no registered unit or with no map loaded
\* returns a result with no units, allPathsFound = false, totalSteps = 0 and no
\* step table, and leaves units, priorities, strategy, map and occupancy table
\* as they were.
C18_NothingToPlan ==
    [][CallWithoutUnitsOrMap =>
          /\ result'.units = <<>>
          /\ result'.allPathsFound = FALSE
          /\ result'.totalSteps = 0
          /\ result'.stepByStepPositions = <<>>
          /\ ~aborted'
          /\ UNCHANGED <<units, unitPriorities, strategy, battleMap,
                         occupiedPositionsAtTime>>]_vars

\* C18 witness: a first call filled the occupancy table, and a second call, made
\* when no unit was registered or no map was loaded, returned the empty result
\* and left the table filled.
C18_Witness ==
    /\ calls = 2
    /\ units = <<>> \/ ~isMapLoaded(battleMap)
    /\ result = PathfindingResult
    /\ occupiedPositionsAtTime # EmptyOccupied

----------------------------------------------------------------------------
(* Properties of plans in a corridor (checked under SpecCorridor)          *)

\* the result is a Sequential plan for two units that travel between the two ends
\* of the corridor in opposite directions
SwappedEnds ==
    /\ planned
    /\ lastStrategy = "SEQUENTIAL"
    /\ Len(result.units) = 2
    /\ result.units[1].startPos = result.units[2].targetPos
    /\ result.units[1].targetPos = result.units[2].startPos
    /\ result.units[1].startPos # result.units[1].targetPos

\* the path holds a wait step
HasWait(path) == \E k \in 1..(Len(path) - 1) : path[k] = path[k + 1]

\* C20: for two units with swapped start and target at the two ends of a corridor
\* one cell wide, Sequential returns for the second unit no path or a path longer
\* than the first unit's that holds a wait step, and the plan has no two units on
\* the same cell at the same time step.
C20_SecondUnitWaitsOrFails ==
    SwappedEnds =>
        /\ \/ ~result.units[2].pathFound
           \/ /\ Len(result.units[2].path) > Len(result.units[1].path)
              /\ HasWait(result.units[2].path)
        /\ findCollisions(result.stepByStepPositions) = <<>>

----------------------------------------------------------------------------
(* Properties of the registry (checked under SpecRegistry)                 *)

\* the step is an autoSetupUnitsFromMap call on a map with at least one start tile
\* and at least one target tile
AutoSetupCall ==
    /\ AutoSetupUnitsFromMap
    /\ Len(battleMap.allStartPositions) >= 1
    /\ Len(battleMap.allTargetPositions) >= 1

\* the target the pairing rule gives to the unit of start i (0-based) with S starts
\* and G targets
PairedTarget(targets, i, S, G) ==
    IF S = G THEN targets[i + 1]
    ELSE IF S > G THEN targets[(i % G) + 1]
    ELSE targets[i + 1]

\* C21: autoSetupUnitsFromMap on a map with S >= 1 start cells and G >= 1 target
\* cells replaces the registered units by exactly S units with ids 1..S, unit i+1
\* starting at start[i] and heading for target[i] when S = G, target[i mod G] when
\* S > G and target[i] when S < G.
C21_AutoSetupPairsStartsWithTargets ==
    [][AutoSetupCall =>
          LET S == Len(battleMap.allStartPositions)
              G == Len(battleMap.allTargetPositions)
          IN  /\ Len(units') = S
              /\ \A i \in 0..(S - 1) :
                    /\ units'[i + 1].id = i + 1
                    /\ units'[i + 1].startPos = battleMap.allStartPositions[i + 1]
                    /\ units'[i + 1].targetPos =
                           PairedTarget(battleMap.allTargetPositions, i, S, G)]_vars

\* C21 witness: on the map with three starts and two targets the registry holds the
\* three units of an auto-setup, the third one heading for the first target again;
\* its priority 4 is one that only the auto-setup assigns.
C21_Witness ==
    /\ battleMap.grid = CycleGrid
    /\ Len(units) = 3
    /\ units[3].id = 3
    /\ units[3].startPos = <<1, 1>>
    /\ units[3].targetPos = <<1, 0>>
    /\ unitPriorities = (1 :> 4) @@ (2 :> 2) @@ (3 :> 4)

\* no two registered units share an id
UniqueIds(us) == \A j, k \in 1..Len(us) : us[j].id = us[k].id => j = k

\* every registered unit has a priority entry
EveryUnitRanked(us, prio) == \A k \in 1..Len(us) : us[k].id \in DOMAIN prio

\* the step is an addUnit(unitId, startPos, targetPos) call with a registered id
AddExisting(unitId, startPos, targetPos) ==
    /\ unitId \in UnitIds(units)
    /\ AddUnit(unitId, startPos, targetPos)

\* C27: after any sequence of addUnit, removeUnit, clearUnits, setUnitPriority,
\* loadMapWithUnits and autoSetupUnitsFromMap calls no two registered units share an
\* id and every registered unit has a priority entry; addUnit with a registered id
\* adds no unit, overwrites the start and target of that unit, resets its path and
\* pathFound, and keeps its priority.
C27_UniqueIdsWithPriorities ==
    [][/\ UniqueIds(units')
       /\ EveryUnitRanked(units', unitPriorities')
       /\ \A unitId \in 1..MaxRegistered : \A c \in RegistryChoices :
             AddExisting(unitId, c[1], c[2]) =>
                 /\ Len(units') = Len(units)
                 /\ unitPriorities' = unitPriorities
                 /\ \A k \in 1..Len(units) :
                       IF units[k].id = unitId
                       THEN units'[k] = Unit(unitId, c[1], c[2])
                       ELSE units'[k] = units[k]]_vars

\* C27 witness: two units are registered out of id order, the first one with a
\* start and target that only a second addUnit on its id gives it after
\* loadMapWithUnits, and a priority that was set by hand.
C27_Witness ==
    /\ Len(units) = 2
    /\ units[1] = Unit(2, <<1, 0>>, <<0, 0>>)
    /\ units[2].id = 1
    /\ unitPriorities[2] = 1

\* C29: every priority assigned by autoSetupUnitsFromMap is (width + height) minus
\* the Manhattan distance between the unit's start and target; it is at least 2,
\* and of two units the one with the strictly shorter distance gets the strictly
\* higher priority.
C29_PriorityFromDistance ==
    [][AutoSetupCall =>
          /\ \A k \in 1..Len(units') :
                /\ units'[k].id \in DOMAIN unitPriorities'
                /\ unitPriorities'[units'[k].id] =
                       (battleMap.width + battleMap.height)
                           - ManhattanDistance(units'[k].startPos, units'[k].targetPos)
                /\ unitPriorities'[units'[k].id] >= 2
          /\ \A j, k \in 1..Len(units') :
                ManhattanDistance(units'[j].startPos, units'[j].targetPos)
                    < ManhattanDistance(units'[k].startPos, units'[k].targetPos)
                => unitPriorities'[units'[j].id] > unitPriorities'[units'[k].id]]_vars

\* C29 witness: after an auto-setup on the map with three starts the unit that goes
\* from corner to corner holds the lowest priority there is, 2, and a unit one step
\* from its target holds 4.
C29_Witness ==
    /\ battleMap.grid = CycleGrid
    /\ Len(units) = 3
    /\ ManhattanDistance(units[2].startPos, units[2].targetPos) = 3
    /\ ManhattanDistance(units[1].startPos, units[1].targetPos) = 1
    /\ unitPriorities[2] = 2
    /\ unitPriorities[1] = 4

----------------------------------------------------------------------------
(* Properties of the occupancy table (checked under SpecOccupancy)         *)

\* the (cell, time) pairs that are not free
OccupiedPairs(occ) ==
    {p \in (UNION {occ[u] : u \in DOMAIN occ}) \X (DOMAIN occ) :
        IsOccupiedAt(occ, p[1], p[2])}

\* the pairs (path[i], startTime + i) of a path
PathPairs(path, startTime) == {<<path[i], startTime + (i - 1)>> : i \in 1..Len(path)}

\* the pairs of a path whose cell lies inside the map
PathPairsOnMap(map, path, startTime) ==
    {p \in PathPairs(path, startTime) : isValidPosition(map, p[1])}

----------------------------------------------------------------------------
(* Properties of the table a planning call leaves (checked under Spec)     *)

\* the last call that returned ran Sequential or Priority-Based
SequentialRunCompleted ==
    /\ planned
    /\ ~aborted
    /\ lastStrategy \in {"SEQUENTIAL", "PRIORITY_BASED"}

\* the (cell, time) pairs of the paths of the found units of a result
FoundPathPairs(us) ==
    UNION {PathPairs(us[k].path, 0) : k \in {j \in 1..Len(us) : us[j].pathFound}}

\* C22: after a Sequential or Priority-Based run the occupancy table holds exactly
\* the cells of the found units' paths: cell c is reserved at time t if and only if
\* some found unit has path[t] = c; a unit that was not found reserves nothing.
C22_TableHoldsFoundPaths ==
    SequentialRunCompleted =>
        OccupiedPairs(occupiedPositionsAtTime) = FoundPathPairs(result.units)

\* C22 witness: the second call on the object ran Sequential or Priority-Based, found
\* one unit and not the other, and left a table that is not empty.
C22_Witness ==
    /\ SequentialRunCompleted
    /\ calls = 2
    /\ Len(result.units) = 2
    /\ \E j, k \in 1..2 : result.units[j].pathFound /\ ~result.units[k].pathFound
    /\ occupiedPositionsAtTime # EmptyOccupied

\* the sequence s without its element k
Without(s, k) == SubSeq(s, 1, k - 1) \o SubSeq(s, k + 1, Len(s))

\* the Sequential run r on the list without unit k gave the other units the paths
\* and flags of the result, and left the table of the result
SameAsRunWithout(r, k) ==
    /\ r.units = Without(result.units, k)
    /\ r.occ = occupiedPositionsAtTime

\* C24: in Sequential a unit that ends not found leaves the occupancy table as it
\* was and no other unit is planned again because of it: the paths and flags of the
\* other units, and the table, are those of a Sequential run on the same list
\* without the failing unit.
C24_FailedUnitLeavesNoTrace ==
    (planned /\ ~aborted /\ lastStrategy = "SEQUENTIAL") =>
        \A k \in 1..Len(result.units) :
            ~result.units[k].pathFound =>
                SameAsRunWithout(
                    findPathsSequential(battleMap, Without(units, k), EmptyOccupied), k)

\* C24 witness: a Sequential run found the first unit and its search for the second
\* unit, whose start and target are both open ground, came back without a path.
C24_Witness ==
    /\ planned /\ ~aborted /\ lastStrategy = "SEQUENTIAL"
    /\ Len(result.units) = 2
    /\ result.units[1].pathFound
    /\ ~result.units[2].pathFound
    /\ isReachable(battleMap, result.units[2].startPos)
    /\ isReachable(battleMap, result.units[2].targetPos)

\* the result the call would have returned under Sequential
SequentialResult ==
    findPathsForAllUnits(battleMap, units, unitPriorities, "SEQUENTIAL", EmptyOccupied,
                         <<>>, "WRITE_LOST").result

\* the Sequential result seq calls for no wait: a unit is not found, or no conflict
\* is reported on its step table
NothingToResolve(seq) ==
    \/ ~seq.allPathsFound
    \/ findCollisions(seq.stepByStepPositions) = <<>>

\* C25: Wait-and-Retry returns exactly the Sequential result (same unit order, paths
\* and flags) whenever the Sequential pass leaves a unit not found or findCollisions
\* reports no conflict on its step table; paths differ from the Sequential ones only
\* when all units are found and a conflict is reported.
C25_WaitingKeepsSequentialResult ==
    (planned /\ ~aborted /\ lastStrategy = "WAIT_AND_RETRY" /\ units # <<>>) =>
        /\ NothingToResolve(SequentialResult) => result = SequentialResult
        /\ result.units # SequentialResult.units =>
               /\ SequentialResult.allPathsFound
               /\ findCollisions(SequentialResult.stepByStepPositions) # <<>>

\* C25 witness: Wait-and-Retry planned two units that both move, found both without
\* any conflict and returned the Sequential result.
C25_Witness ==
    /\ planned /\ ~aborted /\ lastStrategy = "WAIT_AND_RETRY"
    /\ Len(result.units) = 2
    /\ result.allPathsFound
    /\ Len(result.units[1].path) > 1
    /\ Len(result.units[2].path) > 1
    /\ findCollisions(result.stepByStepPositions) = <<>>
    /\ result = SequentialResult

\* the step is a findPathsForAllUnits call that returns
CallReturns ==
    /\ calls' = calls + 1
    /\ ~aborted'

\* C26: findPathsForAllUnits under any strategy returns annotated copies and leaves
\* the registered list as it was: the same units in the same order with the same
\* start, target, path and pathFound (Priority-Based puts the original order back
\* after its pass on the sorted list), and priorities, strategy and map unchanged.
C26_RegistryUntouchedByPlanning ==
    [][CallReturns => UNCHANGED <<units, unitPriorities, strategy, battleMap>>]_vars

\* C26 witness: Priority-Based planned the second registered unit first and found
\* it; the registry still lists the units in registration order, without paths.
C26_Witness ==
    /\ planned /\ ~aborted /\ lastStrategy = "PRIORITY_BASED"
    /\ Len(units) = 2
    /\ result.units[1].id = units[2].id
    /\ result.units[2].id = units[1].id
    /\ result.units[1].pathFound
    /\ units[2].path = <<>> /\ ~units[2].pathFound

\* C28: in a Sequential or Priority-Based result, for two found units of which a
\* was processed before b, and for every time step t with 1 <= t < min(len(path_a),
\* len(path_b)), path_b[t] differs from path_a[t].
C28_LaterUnitAvoidsEarlierPath ==
    SequentialRunCompleted =>
        \A a, b \in 1..Len(result.units) :
            (a < b /\ result.units[a].pathFound /\ result.units[b].pathFound) =>
                \A t \in 1..(Len(result.units[a].path) - 1) :
                    t < Len(result.units[b].path) =>
                        result.units[b].path[t + 1] # result.units[a].path[t + 1]

\* C28 witness: both units of a Sequential or Priority-Based result are found, and
\* the unit processed second waits a step while the first one is still under way.
C28_Witness ==
    /\ SequentialRunCompleted
    /\ Len(result.units) = 2
    /\ result.units[1].pathFound /\ result.units[2].pathFound
    /\ Len(result.units[1].path) >= 3
    /\ result.units[2].path[1] = result.units[2].path[2]

----------------------------------------------------------------------------
(* Properties of the plain search (checked under SpecPlain)                *)

\* C30: findPathAStar, which never updates a node that is in the open set already,
\* is optimal: for traversable start and target it returns a path of the length of
\* the findPathBFS path, and an empty path exactly when findPathBFS returns one.
C30_PlainAStarAsShortAsBFS ==
    search.done =>
        Len(search.path) = Len(findPathBFS(battleMap, search.start, search.target))

====
